---------------------------- MODULE Spec2Model ----------------------------
(***************************************************************************)
(* Model of the bouldercup result write path and scoreboard cache:         *)
(*   accounts/forms.py                   ResultSubmissionForm               *)
(*   accounts/services/result_service.py ResultService                      *)
(*   accounts/services/scoring_service.py ScoringService (cache helpers)    *)
(*   accounts/views/participant.py       participant_results,               *)
(*                                       participant_live_scoreboard        *)
(***************************************************************************)
EXTENDS Integers, Sequences, FiniteSets, TLC

(***************************************************************************)
(* Bounds of the model.                                                    *)
(***************************************************************************)
\* attempt counts submitted directly to the normalizer range over
\* -MinAttempt .. MaxAttempt
MaxAttempt == 3
MinAttempt == 1
\* version numbers a client can send range over 1 .. MaxVersion
MaxVersion == 2
\* number of boulders of the age group, number of participants
NumBoulders == 1
NumParticipants == 1

Max(a, b) == IF a >= b THEN a ELSE b

(***************************************************************************)
(* POST data of one boulder.  A checkbox is posted or not; an integer      *)
(* field is missing/empty, non-numeric, or a numeral.                      *)
(***************************************************************************)
RawMissing == [kind |-> "missing", val |-> 0]
RawBad == [kind |-> "bad", val |-> 0]
RawInt(n) == [kind |-> "int", val |-> n]

\* SubmittedResult.version is None (<<>>) or an integer (<<v>>)
NoVersion == <<>>

SubmittedResult(z1, z2, t, a1, a2, at, v) ==
    [zone1 |-> z1, zone2 |-> z2, top |-> t,
     attempts_zone1 |-> a1, attempts_zone2 |-> a2, attempts_top |-> at,
     version |-> v]

\* forms.IntegerField(required=False).clean followed by clean_attempts_*:
\* a missing value cleans to None and then to 0, a numeral n to max(0, n)
clean_attempts(raw) == IF raw.kind = "int" THEN Max(0, raw.val) ELSE 0

\* clean_version: None for a missing value, int(value) otherwise
clean_version(raw) == IF raw.kind = "int" THEN <<raw.val>> ELSE NoVersion

\* Form.is_valid: every IntegerField must parse (BooleanField never fails)
is_valid(post) ==
    /\ post.attempts_zone1.kind /= "bad"
    /\ post.attempts_zone2.kind /= "bad"
    /\ post.attempts_top.kind /= "bad"
    /\ post.ver.kind /= "bad"

get_submitted_result(post) ==
    SubmittedResult(post.zone1, post.zone2, post.sent,
                    clean_attempts(post.attempts_zone1),
                    clean_attempts(post.attempts_zone2),
                    clean_attempts(post.attempts_top),
                    clean_version(post.ver))

extract_from_post(post) ==
    IF is_valid(post)
    THEN get_submitted_result(post)
    ELSE SubmittedResult(FALSE, FALSE, FALSE, 0, 0, 0, NoVersion)


(***************************************************************************)
(* ResultService.normalize_submission and its three helpers.  Each LET     *)
(* name carries the value of the Python local after the statement it       *)
(* mirrors.                                                                *)
(***************************************************************************)
\* variant of no_zones_attempts without max(..., 0)
no_zones_attempts_unclamped(s) ==
    IF s.top /\ s.attempts_top < 1 THEN 1 ELSE s.attempts_top

\* attempts_top of _normalize_no_zones
no_zones_attempts(s) ==
    LET attempts_top == Max(s.attempts_top, 0)
    IN  IF s.top /\ attempts_top < 1 THEN 1 ELSE attempts_top

_normalize_no_zones(s) ==
    SubmittedResult(FALSE, FALSE, s.top, 0, 0, no_zones_attempts(s), s.version)

\* zone1, top of _normalize_single_zone
single_zone_flags(s) ==
    LET zone1 == IF s.top THEN TRUE ELSE s.zone1
        top == IF ~zone1 THEN FALSE ELSE s.top
    IN  [zone1 |-> zone1, zone2 |-> FALSE, top |-> top]

\* attempts_z1, attempts_top of _normalize_single_zone
single_zone_attempts(f, s) ==
    LET z1_0 == Max(s.attempts_zone1, 0)
        top_0 == Max(s.attempts_top, 0)
        z1_1 == IF f.zone1 /\ z1_0 < 1 THEN 1 ELSE z1_0
        top_1 == IF f.top /\ top_0 < 1 THEN 1 ELSE top_0
        z1_2 == IF f.top /\ top_1 /= 0 /\ z1_1 = 0 THEN top_1 ELSE z1_1
        top_2 == IF f.top /\ top_1 /= 0 /\ top_1 < z1_2 THEN z1_2 ELSE top_1
    IN  [attempts_zone1 |-> z1_2, attempts_zone2 |-> 0, attempts_top |-> top_2]

_normalize_single_zone(s) ==
    LET f == single_zone_flags(s)
        a == single_zone_attempts(f, s)
    IN  SubmittedResult(f.zone1, FALSE, f.top,
                        a.attempts_zone1, 0, a.attempts_top, s.version)

\* variant of two_zones_flags without `if top: zone2 = True; zone1 = True`
two_zones_flags_top_alone(s) ==
    LET zone1a == IF s.zone2 /\ ~s.zone1 THEN TRUE ELSE s.zone1
        zone2b == IF ~zone1a THEN FALSE ELSE s.zone2
        top1 == IF ~zone1a THEN FALSE ELSE s.top
    IN  [zone1 |-> zone1a, zone2 |-> zone2b, top |-> top1]

\* zone1, zone2, top of _normalize_two_zones
two_zones_flags(s) ==
    LET zone2a == IF s.top THEN TRUE ELSE s.zone2
        zone1a == IF s.top THEN TRUE ELSE s.zone1
        zone1b == IF zone2a /\ ~zone1a THEN TRUE ELSE zone1a
        zone2b == IF ~zone1b THEN FALSE ELSE zone2a
        top1 == IF ~zone1b THEN FALSE ELSE s.top
    IN  [zone1 |-> zone1b, zone2 |-> zone2b, top |-> top1]

\* variant of two_zones_attempts that raises attempts_top before attempts_z2
two_zones_attempts_top_first(f, s) ==
    LET z1_0 == Max(s.attempts_zone1, 0)
        z2_0 == Max(s.attempts_zone2, 0)
        top_0 == Max(s.attempts_top, 0)
        z1_1 == IF f.zone1 /\ z1_0 < 1 THEN 1 ELSE z1_0
        z2_1 == IF f.zone2 /\ z2_0 < 1 THEN 1 ELSE z2_0
        top_1 == IF f.top /\ top_0 < 1 THEN 1 ELSE top_0
        z2_2 == IF f.top /\ top_1 /= 0 /\ z2_1 = 0 THEN top_1 ELSE z2_1
        z1_2 == IF f.top /\ top_1 /= 0 /\ z1_1 = 0 THEN top_1 ELSE z1_1
        z1_3 == IF f.zone2 /\ z2_2 /= 0 /\ z1_2 = 0 THEN z2_2 ELSE z1_2
        baseline == IF f.zone2 THEN z2_2 ELSE z1_3
        top_2 == IF f.top /\ top_1 /= 0 /\ top_1 < baseline THEN baseline ELSE top_1
        z2_3 == IF f.zone2 /\ z2_2 /= 0 /\ z2_2 < z1_3 THEN z1_3 ELSE z2_2
    IN  [attempts_zone1 |-> z1_3, attempts_zone2 |-> z2_3, attempts_top |-> top_2]

\* attempts_z1, attempts_z2, attempts_top of _normalize_two_zones
two_zones_attempts(f, s) ==
    LET z1_0 == Max(s.attempts_zone1, 0)
        z2_0 == Max(s.attempts_zone2, 0)
        top_0 == Max(s.attempts_top, 0)
        z1_1 == IF f.zone1 /\ z1_0 < 1 THEN 1 ELSE z1_0
        z2_1 == IF f.zone2 /\ z2_0 < 1 THEN 1 ELSE z2_0
        top_1 == IF f.top /\ top_0 < 1 THEN 1 ELSE top_0
        z2_2 == IF f.top /\ top_1 /= 0 /\ z2_1 = 0 THEN top_1 ELSE z2_1
        z1_2 == IF f.top /\ top_1 /= 0 /\ z1_1 = 0 THEN top_1 ELSE z1_1
        z1_3 == IF f.zone2 /\ z2_2 /= 0 /\ z1_2 = 0 THEN z2_2 ELSE z1_2
        z2_3 == IF f.zone2 /\ z2_2 /= 0 /\ z2_2 < z1_3 THEN z1_3 ELSE z2_2
        baseline == IF f.zone2 THEN z2_3 ELSE z1_3
        top_2 == IF f.top /\ top_1 /= 0 /\ top_1 < baseline THEN baseline ELSE top_1
    IN  [attempts_zone1 |-> z1_3, attempts_zone2 |-> z2_3, attempts_top |-> top_2]

_normalize_two_zones(s) ==
    LET f == two_zones_flags(s)
        a == two_zones_attempts(f, s)
    IN  SubmittedResult(f.zone1, f.zone2, f.top,
                        a.attempts_zone1, a.attempts_zone2, a.attempts_top,
                        s.version)

normalize_submission(zone_count, s) ==
    IF zone_count = 0 THEN _normalize_no_zones(s)
    ELSE IF zone_count = 1 THEN _normalize_single_zone(s)
    ELSE _normalize_two_zones(s)

(***************************************************************************)
(* Inputs of the normalizer.                                               *)
(***************************************************************************)
ZoneCounts == 0 .. 2
Versions == {NoVersion} \cup {<<v>> : v \in 1 .. MaxVersion}
RawInts == {RawMissing, RawBad} \cup {RawInt(n) : n \in (0 - MinAttempt) .. MaxAttempt}
RawVersions == {RawMissing, RawBad} \cup {RawInt(v) : v \in 1 .. MaxVersion}

\* request.POST restricted to the fields of one boulder
PostData ==
    [zone1 : BOOLEAN, zone2 : BOOLEAN, sent : BOOLEAN,
     attempts_zone1 : RawInts, attempts_zone2 : RawInts, attempts_top : RawInts,
     ver : RawVersions]

\* any SubmittedResult a caller can hand to normalize_submission
Submissions ==
    [zone1 : BOOLEAN, zone2 : BOOLEAN, top : BOOLEAN,
     attempts_zone1 : (0 - MinAttempt) .. MaxAttempt,
     attempts_zone2 : (0 - MinAttempt) .. MaxAttempt,
     attempts_top : (0 - MinAttempt) .. MaxAttempt,
     version : Versions]

(***************************************************************************)
(* State.                                                                  *)
(***************************************************************************)
\* number of concurrent POST requests to participant_results
NumWriters == 2

Boulders == 1 .. NumBoulders
Participants == 1 .. NumParticipants
Writers == 1 .. NumWriters

\* Optional values: None is <<>>, a present value x is <<x>>
None == <<>>
Some(x) == <<x>>

GradingSystems ==
    {"ifsc", "point_based", "point_based_dynamic", "point_based_dynamic_attempts"}

VARIABLES
    zone_count,      \* Boulder.zone_count of every boulder
    age_group_id,    \* Participant.age_group_id, 0 for None
    grading_system,  \* CompetitionSettings.grading_system
    rows,            \* committed rows of the Result table
    next_id,         \* next primary key of the Result table
    wpc,             \* position of every POST request in handle_submission
    wpart,           \* its participant
    wb,              \* index of the boulder its loop is at
    wsub,            \* `submission` of the current iteration
    wcur,            \* `current_result` of the current iteration
    wtx,             \* rows written in its open transaction
    wlocks,          \* ids of the rows it holds FOR UPDATE
    payload,         \* `payload` it returns
    wlog,            \* what it did for every boulder (history)
    cache,           \* django cache, scoreboard keys
    rpc,             \* position of the scoreboard request
    rkey,            \* its age_group_key
    rdata,           \* the payload it computed
    rresp,           \* the payload it answered with
    npc, nz, npost, nsub, nout, nout2,  \* a normalizer run on its own
    db_settings,     \* the CompetitionSettings row, None when there is none
    scache,          \* django cache, key 'competition_settings'
    gpc,             \* position of a get_active_settings call
    gcached,         \* its local `cached`
    gret,            \* what it returned
    spc,             \* position of a CompetitionSettings.save call
    sraced,          \* a save ran while get_active_settings was under way (history)
    fpc,             \* position of a scoring function run on its own
    fgrading, fsettings, fresults, fall, fcount, fpct, fout,
    kpc,             \* position of a rank_entries / build_scoreboard_entries run
    kgrading, kentries, kparticipants, kresults, ksettings, kout

vars ==
    <<zone_count, age_group_id, grading_system, rows, next_id,
      wpc, wpart, wb, wsub, wcur, wtx, wlocks, payload, wlog,
      cache, rpc, rkey, rdata, rresp,
      npc, nz, npost, nsub, nout, nout2,
      db_settings, scache, gpc, gcached, gret, spc, sraced,
      fpc, fgrading, fsettings, fresults, fall, fcount, fpct, fout,
      kpc, kgrading, kentries, kparticipants, kresults, ksettings, kout>>

write_vars == <<rows, next_id, wpc, wpart, wb, wsub, wcur, wtx, wlocks, payload, wlog>>
fixed_vars == <<zone_count, age_group_id, grading_system>>
read_vars == <<rpc, rkey, rdata, rresp>>
norm_vars == <<npc, nz, npost, nsub, nout, nout2>>
settings_vars == <<db_settings, scache, gpc, gcached, gret, spc, sraced>>
score_vars == <<fpc, fgrading, fsettings, fresults, fall, fcount, fpct, fout>>
rank_vars == <<kpc, kgrading, kentries, kparticipants, kresults, ksettings, kout>>
aux_vars == <<settings_vars, score_vars, rank_vars>>

(***************************************************************************)
(* The Result table.                                                       *)
(***************************************************************************)
\* Result.version of a row that save() inserts
InitialVersion == 1

\* Result.version after save() updates a row
next_version(v) == v + 1

\* Result.attempts as handle_submission sets it
legacy_attempts(sub) ==
    IF sub.top THEN sub.attempts_top
    ELSE IF sub.zone2 THEN sub.attempts_zone2 ELSE sub.attempts_zone1

\* the fields handle_submission assigns before save()
result_row(id, p, b, sub, version) ==
    [id |-> id, participant |-> p, boulder |-> b,
     zone1 |-> sub.zone1, zone2 |-> sub.zone2, top |-> sub.top,
     attempts_zone1 |-> sub.attempts_zone1,
     attempts_zone2 |-> sub.attempts_zone2,
     attempts_top |-> sub.attempts_top,
     attempts |-> legacy_attempts(sub),
     version |-> version]

\* updated_at is left out: time is not part of the state
result_to_payload(result) ==
    [top |-> result.top, zone2 |-> result.zone2, zone1 |-> result.zone1,
     attempts_top |-> result.attempts_top,
     attempts_zone2 |-> result.attempts_zone2,
     attempts_zone1 |-> result.attempts_zone1,
     version |-> result.version]

\* the rows request w sees: its own writes over the committed rows
visible_rows(w) ==
    wtx[w] \cup {r \in rows : \A t \in wtx[w] : t.id /= r.id}

matching(rs, p, b) == {r \in rs : r.participant = p /\ r.boulder = b}

\* QuerySet.first(): the matching row with the least primary key, or None
first_row(rs) ==
    IF rs = {} THEN None
    ELSE Some(CHOOSE r \in rs : \A o \in rs : r.id <= o.id)

\* variant of row_lockable for a plain SELECT, which waits for no lock
row_unlocked(w, id) == TRUE

\* select_for_update(): the row is not held FOR UPDATE by another transaction
row_lockable(w, id) == \A o \in Writers \ {w} : id \notin wlocks[o]

\* variant of unique_violation for a table without unique_together
unique_violation_never(p, b) == FALSE

\* unique_together = ("participant", "boulder"): a committed row of the pair
\* makes the INSERT fail
unique_violation(p, b) == matching(rows, p, b) /= {}

\* the INSERT waits while another open transaction has inserted the pair
unique_pending(w, p, b) ==
    \E o \in Writers \ {w} :
        \E t \in matching(wtx[o], p, b) : \A r \in rows : r.id /= t.id

\* variant of version_conflict that compares with < instead of !=
version_conflict_if_older(current_result, submission) ==
    /\ current_result /= None
    /\ submission.version /= NoVersion
    /\ submission.version[1] < current_result[1].version

\* the version check of handle_submission
version_conflict(current_result, submission) ==
    /\ current_result /= None
    /\ submission.version /= NoVersion
    /\ current_result[1].version /= submission.version[1]

\* Boulder.objects.filter(age_groups=participant.age_group), or none()
boulders_of(p) ==
    IF age_group_id[p] /= 0
    THEN [i \in 1 .. Cardinality(DOMAIN zone_count) |-> i]
    ELSE <<>>

\* f"scoreboard_{age_group_id}_{grading}"; group 0 stands for "all"
AllGroups == 0
scoreboard_key(group, grading) == <<group, grading>>

NoLog == [outcome |-> "none", stored_version |-> None,
          sub_version |-> NoVersion, flags_fixed |-> FALSE]

(***************************************************************************)
(* participant_results (POST) and ResultService.handle_submission.         *)
(***************************************************************************)
\* what a client posts for one boulder in the concurrent runs
WritePosts ==
    [zone1 : BOOLEAN, zone2 : BOOLEAN, sent : BOOLEAN,
     attempts_zone1 : {RawMissing}, attempts_zone2 : {RawMissing},
     attempts_top : {RawMissing, RawBad, RawInt(MaxAttempt)},
     ver : RawVersions]

BlankSubmission == SubmittedResult(FALSE, FALSE, FALSE, 0, 0, 0, NoVersion)

current_boulder(w) == boulders_of(wpart[w])[wb[w]]

\* the POST passes the submission window and enters transaction.atomic()
Submit(w) ==
    /\ wpc[w] = "idle"
    /\ \E p \in Participants :
        /\ wpart' = [wpart EXCEPT ![w] = p]
        /\ wpc' = [wpc EXCEPT ![w] =
                      IF boulders_of(p) = <<>> THEN "commit" ELSE "select"]
    /\ UNCHANGED <<rows, next_id, wb, wsub, wcur, wtx, wlocks, payload, wlog>>
    /\ UNCHANGED <<fixed_vars, cache, read_vars, norm_vars, aux_vars>>

\* window_status.can_submit is false: 403, handle_submission is not called
SubmitOutsideWindow(w) ==
    /\ wpc[w] = "idle"
    /\ wpc' = [wpc EXCEPT ![w] = "forbidden"]
    /\ UNCHANGED <<rows, next_id, wpart, wb, wsub, wcur, wtx, wlocks, payload, wlog>>
    /\ UNCHANGED <<fixed_vars, cache, read_vars, norm_vars, aux_vars>>

\* lines 226-235: extract, normalize, SELECT ... FOR UPDATE
SelectForUpdate(w) ==
    /\ wpc[w] = "select"
    /\ \E post \in WritePosts :
        LET p == wpart[w]
            b == current_boulder(w)
            raw == extract_from_post(post)
            sub == normalize_submission(zone_count[b], raw)
            cur == first_row(matching(visible_rows(w), p, b))
        IN  /\ cur /= None => row_lockable(w, cur[1].id)
            /\ wlocks' = [wlocks EXCEPT ![w] =
                             IF cur = None THEN @ ELSE @ \cup {cur[1].id}]
            /\ wsub' = [wsub EXCEPT ![w] = sub]
            /\ wcur' = [wcur EXCEPT ![w] = cur]
            /\ wlog' = [wlog EXCEPT ![w][b] =
                           [NoLog EXCEPT
                               !.sub_version = sub.version,
                               !.flags_fixed =
                                   \/ post.zone1 /= sub.zone1
                                   \/ post.zone2 /= sub.zone2
                                   \/ post.sent /= sub.top]]
    /\ wpc' = [wpc EXCEPT ![w] = "decide"]
    /\ UNCHANGED <<rows, next_id, wpart, wb, wtx, payload>>
    /\ UNCHANGED <<fixed_vars, cache, read_vars, norm_vars, aux_vars>>

\* the loop goes to the next boulder, or the atomic block ends
advance(w) ==
    /\ IF wb[w] < Len(boulders_of(wpart[w]))
       THEN /\ wb' = [wb EXCEPT ![w] = @ + 1]
            /\ wpc' = [wpc EXCEPT ![w] = "select"]
       ELSE /\ wb' = wb
            /\ wpc' = [wpc EXCEPT ![w] = "commit"]
    /\ wsub' = [wsub EXCEPT ![w] = BlankSubmission]
    /\ wcur' = [wcur EXCEPT ![w] = None]

\* variant: a version mismatch ends the loop and undoes the call's writes
RejectStale_aborting(w) ==
    /\ wpc[w] = "decide"
    /\ version_conflict(wcur[w], wsub[w])
    /\ LET b == current_boulder(w)
       IN  /\ payload' = [payload EXCEPT ![w][b] =
                             Some(result_to_payload(wcur[w][1]))]
           /\ wlog' = [wlog EXCEPT ![w][b] =
                          [@ EXCEPT !.outcome = "rejected",
                                    !.stored_version = Some(wcur[w][1].version)]]
    /\ wtx' = [wtx EXCEPT ![w] = {}]
    /\ wpc' = [wpc EXCEPT ![w] = "commit"]
    /\ wsub' = [wsub EXCEPT ![w] = BlankSubmission]
    /\ wcur' = [wcur EXCEPT ![w] = None]
    /\ UNCHANGED <<rows, next_id, wpart, wb, wlocks>>
    /\ UNCHANGED <<fixed_vars, cache, read_vars, norm_vars, aux_vars>>

\* lines 238-248: version mismatch, the stored state is returned
RejectStale(w) ==
    /\ wpc[w] = "decide"
    /\ version_conflict(wcur[w], wsub[w])
    /\ LET b == current_boulder(w)
       IN  /\ payload' = [payload EXCEPT ![w][b] =
                             Some(result_to_payload(wcur[w][1]))]
           /\ wlog' = [wlog EXCEPT ![w][b] =
                          [@ EXCEPT !.outcome = "rejected",
                                    !.stored_version = Some(wcur[w][1].version)]]
    /\ advance(w)
    /\ UNCHANGED <<rows, next_id, wpart, wtx, wlocks>>
    /\ UNCHANGED <<fixed_vars, cache, read_vars, norm_vars, aux_vars>>

\* lines 253-265 on the row that was read: UPDATE
SaveExisting(w) ==
    /\ wpc[w] = "decide"
    /\ ~version_conflict(wcur[w], wsub[w])
    /\ wcur[w] /= None
    /\ LET b == current_boulder(w)
           cur == wcur[w][1]
           row == result_row(cur.id, wpart[w], b, wsub[w], next_version(cur.version))
       IN  /\ wtx' = [wtx EXCEPT ![w] = {t \in @ : t.id /= row.id} \cup {row}]
           /\ payload' = [payload EXCEPT ![w][b] = Some(result_to_payload(row))]
           /\ wlog' = [wlog EXCEPT ![w][b] =
                          [@ EXCEPT !.outcome = "updated",
                                    !.stored_version = Some(cur.version)]]
    /\ advance(w)
    /\ UNCHANGED <<rows, next_id, wpart, wlocks>>
    /\ UNCHANGED <<fixed_vars, cache, read_vars, norm_vars, aux_vars>>

\* lines 250-265 when no row was read: INSERT
SaveNew(w) ==
    /\ wpc[w] = "decide"
    /\ wcur[w] = None
    /\ LET b == current_boulder(w)
           row == result_row(next_id, wpart[w], b, wsub[w], InitialVersion)
       IN  /\ ~unique_pending(w, wpart[w], b)
           /\ ~unique_violation(wpart[w], b)
           /\ wtx' = [wtx EXCEPT ![w] = @ \cup {row}]
           /\ payload' = [payload EXCEPT ![w][b] = Some(result_to_payload(row))]
           /\ wlog' = [wlog EXCEPT ![w][b] = [@ EXCEPT !.outcome = "created"]]
    /\ next_id' = next_id + 1
    /\ advance(w)
    /\ UNCHANGED <<rows, wpart, wlocks>>
    /\ UNCHANGED <<fixed_vars, cache, read_vars, norm_vars, aux_vars>>

\* the INSERT breaks unique_together: IntegrityError leaves the atomic block,
\* the transaction is rolled back and handle_submission raises
SaveNewFails(w) ==
    /\ wpc[w] = "decide"
    /\ wcur[w] = None
    /\ ~unique_pending(w, wpart[w], current_boulder(w))
    /\ unique_violation(wpart[w], current_boulder(w))
    /\ wtx' = [wtx EXCEPT ![w] = {}]
    /\ wlocks' = [wlocks EXCEPT ![w] = {}]
    /\ payload' = [payload EXCEPT ![w] = [b \in DOMAIN zone_count |-> None]]
    /\ wsub' = [wsub EXCEPT ![w] = BlankSubmission]
    /\ wcur' = [wcur EXCEPT ![w] = None]
    /\ wlog' = [wlog EXCEPT ![w] =
                   [b \in DOMAIN zone_count |->
                       IF @[b].outcome \in {"updated", "created"}
                       THEN [@[b] EXCEPT !.outcome = "rolled_back"]
                       ELSE @[b]]]
    /\ wpc' = [wpc EXCEPT ![w] = "failed"]
    /\ UNCHANGED <<rows, next_id, wpart, wb>>
    /\ UNCHANGED <<fixed_vars, cache, read_vars, norm_vars, aux_vars>>

\* transaction.atomic() exits: COMMIT, the row locks are released
Commit(w) ==
    /\ wpc[w] = "commit"
    /\ rows' = {r \in rows : \A t \in wtx[w] : t.id /= r.id} \cup wtx[w]
    /\ wtx' = [wtx EXCEPT ![w] = {}]
    /\ wlocks' = [wlocks EXCEPT ![w] = {}]
    /\ wpc' = [wpc EXCEPT ![w] = "invalidate"]
    /\ UNCHANGED <<next_id, wpart, wb, wsub, wcur, payload, wlog>>
    /\ UNCHANGED <<fixed_vars, cache, read_vars, norm_vars, aux_vars>>

InvalidatedGradings == {"ifsc", "point_based"}

\* the keys lines 268-271 delete for participant p
invalidated_keys(p) ==
    IF age_group_id[p] /= 0
    THEN UNION {{scoreboard_key(age_group_id[p], g), scoreboard_key(AllGroups, g)} :
                    g \in InvalidatedGradings}
    ELSE {}

\* lines 267-273: the cache deletes, then the payload is returned
Invalidate(w) ==
    /\ wpc[w] = "invalidate"
    /\ cache' = [k \in DOMAIN cache |->
                    IF k \in invalidated_keys(wpart[w]) THEN None ELSE cache[k]]
    /\ wpc' = [wpc EXCEPT ![w] = "done"]
    /\ UNCHANGED <<rows, next_id, wpart, wb, wsub, wcur, wtx, wlocks, payload, wlog>>
    /\ UNCHANGED <<fixed_vars, read_vars, norm_vars, aux_vars>>

(***************************************************************************)
(* ScoringService: the four scoring functions.  A result is a Result row   *)
(* joined with its boulder's zone_count (select_related).                  *)
(***************************************************************************)
\* CompetitionSettings with the defaults of the model fields
DefaultSettings ==
    [top_points |-> 25, flash_points |-> 30, min_top_points |-> 0,
     top_points_100 |-> 25, top_points_90 |-> 25, top_points_80 |-> 25,
     top_points_70 |-> 30, top_points_60 |-> 35, top_points_50 |-> 40,
     top_points_40 |-> 42, top_points_30 |-> 44, top_points_20 |-> 46,
     top_points_10 |-> 50,
     zone_points |-> 10, zone1_points |-> 10, zone2_points |-> 10,
     min_zone_points |-> 0, min_zone1_points |-> 0, min_zone2_points |-> 0,
     attempt_penalty |-> 1]

RECURSIVE SumFn(_)
\* the sum of f[x] over the domain of f
SumFn(f) ==
    IF DOMAIN f = {} THEN 0
    ELSE LET x == CHOOSE x \in DOMAIN f : TRUE
         IN  f[x] + SumFn([y \in DOMAIN f \ {x} |-> f[y]])

\* Python's `a or b` on integers
Or(a, b) == IF a /= 0 THEN a ELSE b

\* variant of score_ifsc that reads the split attempt fields alone
score_ifsc_split_only(results) ==
    LET topped == {r \in results : r.top}
        zoned == {r \in results : r.zone2 \/ r.zone1}
    IN  [tops |-> Cardinality(topped),
         zones |-> Cardinality(zoned),
         top_attempts |-> SumFn([r \in topped |-> r.attempts_top]),
         zone_attempts |->
             SumFn([r \in zoned |->
                       IF r.zone2 THEN r.attempts_zone2 ELSE r.attempts_zone1]),
         points |-> 0, attempts |-> 0]

score_ifsc(results) ==
    LET topped == {r \in results : r.top}
        zoned == {r \in results : r.zone2 \/ r.zone1}
    IN  [tops |-> Cardinality(topped),
         zones |-> Cardinality(zoned),
         top_attempts |-> SumFn([r \in topped |-> Or(r.attempts_top, r.attempts)]),
         zone_attempts |->
             SumFn([r \in zoned |->
                       IF r.zone2 THEN Or(r.attempts_zone2, r.attempts)
                       ELSE Or(r.attempts_zone1, r.attempts)]),
         points |-> 0, attempts |-> 0]

\* `res.attempts_zone2 if res.zone2 else res.attempts_zone1 or res.attempts`
zone_attempts_used(r) ==
    IF r.zone2 THEN r.attempts_zone2 ELSE Or(r.attempts_zone1, r.attempts)

\* variant of zone_base that never looks at the boulder's zone_count
zone_base_single(r, settings) ==
    IF r.zone2 THEN settings.zone2_points ELSE settings.zone_points

zone_base(r, settings) ==
    IF r.zone2 THEN settings.zone2_points
    ELSE IF r.zone_count >= 2 THEN settings.zone1_points
    ELSE settings.zone_points

zone_min(r, settings) ==
    IF r.zone2 THEN settings.min_zone2_points
    ELSE IF r.zone_count >= 2 THEN settings.min_zone1_points
    ELSE settings.min_zone_points

\* variant of penalized without the minimum
penalized_unfloored(base, attempts_used, floor, settings) ==
    base - settings.attempt_penalty * Max(attempts_used - 1, 0)

penalized(base, attempts_used, floor, settings) ==
    Max(base - settings.attempt_penalty * Max(attempts_used - 1, 0), floor)

\* total_attempts contribution of one result, the same in all point systems
attempts_counted(r) ==
    IF r.top THEN Or(r.attempts_top, r.attempts)
    ELSE IF r.zone2 \/ r.zone1 THEN zone_attempts_used(r)
    ELSE r.attempts

\* pts of one result in score_point_based
point_based_pts(r, settings) ==
    IF r.top
    THEN LET attempts_used == Or(r.attempts_top, r.attempts)
             base == IF attempts_used = 1 THEN settings.flash_points
                     ELSE settings.top_points
         IN  penalized(base, attempts_used, settings.min_top_points, settings)
    ELSE IF r.zone2 \/ r.zone1
    THEN penalized(zone_base(r, settings), zone_attempts_used(r),
                   zone_min(r, settings), settings)
    ELSE 0

aggregate_points(results, pts) ==
    [points |-> SumFn(pts),
     tops |-> Cardinality({r \in results : r.top}),
     zones |-> Cardinality({r \in results : ~r.top /\ (r.zone2 \/ r.zone1)}),
     attempts |-> SumFn([r \in results |-> attempts_counted(r)]),
     top_attempts |-> 0, zone_attempts |-> 0]

score_point_based(results, settings) ==
    aggregate_points(results, [r \in results |-> point_based_pts(r, settings)])

\* variant of top_percentage that divides whatever the cohort size: the
\* fraction over 0 compares as above every threshold when its numerator is
\* positive
top_percentage_unguarded(boulder_tops, participant_count) ==
    [num |-> boulder_tops * 100, den |-> participant_count]

\* `(boulder_tops / participant_count * 100) if participant_count > 0 else 0`
\* as the exact fraction num / den: for cohorts up to 2000 participants the
\* float comparison `top_percentage > T` agrees with num > T * den
top_percentage(boulder_tops, participant_count) ==
    IF participant_count > 0
    THEN [num |-> boulder_tops * 100, den |-> participant_count]
    ELSE [num |-> 0, den |-> 1]

\* variant of get_dynamic_top_points whose thresholds are inclusive
get_dynamic_top_points_inclusive(settings, pct) ==
    LET over(T) == pct.num >= T * pct.den
    IN  IF over(90) THEN settings.top_points_100
        ELSE IF over(80) THEN settings.top_points_90
        ELSE IF over(70) THEN settings.top_points_80
        ELSE IF over(60) THEN settings.top_points_70
        ELSE IF over(50) THEN settings.top_points_60
        ELSE IF over(40) THEN settings.top_points_50
        ELSE IF over(30) THEN settings.top_points_40
        ELSE IF over(20) THEN settings.top_points_30
        ELSE IF over(10) THEN settings.top_points_20
        ELSE settings.top_points_10

get_dynamic_top_points(settings, pct) ==
    LET over(T) == pct.num > T * pct.den
    IN  IF over(90) THEN settings.top_points_100
        ELSE IF over(80) THEN settings.top_points_90
        ELSE IF over(70) THEN settings.top_points_80
        ELSE IF over(60) THEN settings.top_points_70
        ELSE IF over(50) THEN settings.top_points_60
        ELSE IF over(40) THEN settings.top_points_50
        ELSE IF over(30) THEN settings.top_points_40
        ELSE IF over(20) THEN settings.top_points_30
        ELSE IF over(10) THEN settings.top_points_20
        ELSE settings.top_points_10

\* top_counts.get(boulder_id, 0) of count_tops_per_boulder(results)
count_tops_per_boulder(results, boulder_id) ==
    Cardinality({r \in results : r.top /\ r.boulder = boulder_id})

\* variant of dynamic_pts that charges the attempts of a zone
dynamic_pts_penalized(r, settings, all_results, participant_count) ==
    IF r.top
    THEN IF Or(r.attempts_top, r.attempts) = 1 THEN settings.flash_points
         ELSE get_dynamic_top_points(
                  settings,
                  top_percentage(count_tops_per_boulder(all_results, r.boulder),
                                 participant_count))
    ELSE IF r.zone2 \/ r.zone1
    THEN penalized(zone_base(r, settings), zone_attempts_used(r),
                   zone_min(r, settings), settings)
    ELSE 0

\* pts of one result in score_point_based_dynamic
dynamic_pts(r, settings, all_results, participant_count) ==
    IF r.top
    THEN IF Or(r.attempts_top, r.attempts) = 1 THEN settings.flash_points
         ELSE get_dynamic_top_points(
                  settings,
                  top_percentage(count_tops_per_boulder(all_results, r.boulder),
                                 participant_count))
    ELSE IF r.zone2 \/ r.zone1 THEN zone_base(r, settings)
    ELSE 0

score_point_based_dynamic(results, settings, all_results, participant_count) ==
    aggregate_points(results,
        [r \in results |-> dynamic_pts(r, settings, all_results, participant_count)])

\* pts of one result in score_point_based_dynamic_attempts
dynamic_attempts_pts(r, settings, all_results, participant_count) ==
    IF r.top
    THEN LET attempts_used == Or(r.attempts_top, r.attempts)
         IN  IF attempts_used = 1 THEN settings.flash_points
             ELSE penalized(
                      get_dynamic_top_points(
                          settings,
                          top_percentage(count_tops_per_boulder(all_results, r.boulder),
                                         participant_count)),
                      attempts_used, settings.min_top_points, settings)
    ELSE IF r.zone2 \/ r.zone1
    THEN penalized(zone_base(r, settings), zone_attempts_used(r),
                   zone_min(r, settings), settings)
    ELSE 0

score_point_based_dynamic_attempts(results, settings, all_results, participant_count) ==
    aggregate_points(results,
        [r \in results |->
            dynamic_attempts_pts(r, settings, all_results, participant_count)])

(***************************************************************************)
(* ScoringService.rank_entries and build_scoreboard_entries.               *)
(***************************************************************************)
\* Participant.name is one letter, upper or lower case; lower() folds the case
participant_name(p) == [letter |-> p, upper |-> TRUE]
lower(name) == [name EXCEPT !.upper = FALSE]

POINT_BASED_SYSTEMS ==
    {"point_based", "point_based_dynamic", "point_based_dynamic_attempts"}
DYNAMIC_SYSTEMS == {"point_based_dynamic", "point_based_dynamic_attempts"}

\* a number of the sort key as <<0, n>>, float("inf") as <<1, 0>>
Finite(n) == <<0, n>>
Infinite == <<1, 0>>

\* variant of sort_key without float("inf") for entries with no top or zone
sort_key_plain_attempts(entry, grading) ==
    LET name == Finite(lower(entry.name).letter)
    IN  IF grading \in POINT_BASED_SYSTEMS
        THEN Finite(0 - entry.points) \o Finite(0 - entry.tops)
             \o Finite(0 - entry.zones) \o Finite(entry.attempts) \o name
        ELSE Finite(0 - entry.tops) \o Finite(0 - entry.zones)
             \o Finite(entry.top_attempts) \o Finite(entry.zone_attempts) \o name

\* sort_key(entry) flattened to a tuple of integers
sort_key(entry, grading) ==
    LET name == Finite(lower(entry.name).letter)
    IN  IF grading \in POINT_BASED_SYSTEMS
        THEN Finite(0 - entry.points) \o Finite(0 - entry.tops)
             \o Finite(0 - entry.zones) \o Finite(entry.attempts) \o name
        ELSE Finite(0 - entry.tops) \o Finite(0 - entry.zones)
             \o (IF entry.tops > 0 THEN Finite(entry.top_attempts) ELSE Infinite)
             \o (IF entry.zones > 0 THEN Finite(entry.zone_attempts) ELSE Infinite)
             \o name

RECURSIVE TupleLess(_, _)
\* Python's < on tuples of equal length
TupleLess(a, b) ==
    /\ a /= <<>>
    /\ \/ Head(a) < Head(b)
       \/ Head(a) = Head(b) /\ TupleLess(Tail(a), Tail(b))

\* e placed behind every entry whose key is not greater: list.sort is stable
insert_sorted(sorted, e, grading) ==
    LET k == sort_key(e, grading)
        ahead == {i \in 1 .. Len(sorted) : ~TupleLess(k, sort_key(sorted[i], grading))}
        n == Cardinality(ahead)
    IN  SubSeq(sorted, 1, n) \o <<e>> \o SubSeq(sorted, n + 1, Len(sorted))

RECURSIVE sort_entries(_, _)
\* entries.sort(key=sort_key)
sort_entries(entries, grading) ==
    IF entries = <<>> THEN <<>>
    ELSE insert_sorted(sort_entries(SubSeq(entries, 1, Len(entries) - 1), grading),
                       entries[Len(entries)], grading)

RECURSIVE rank_at_dense(_, _, _)
\* variant of rank_at that counts the distinct keys (1, 1, 2)
rank_at_dense(sorted, idx, grading) ==
    IF idx = 1 THEN 1
    ELSE IF sort_key(sorted[idx], grading) /= sort_key(sorted[idx - 1], grading)
    THEN rank_at_dense(sorted, idx - 1, grading) + 1
    ELSE rank_at_dense(sorted, idx - 1, grading)

RECURSIVE rank_at(_, _, _)
\* current_rank after the loop of rank_entries has handled sorted[idx]
rank_at(sorted, idx, grading) ==
    IF idx = 1 THEN 1
    ELSE IF sort_key(sorted[idx], grading) /= sort_key(sorted[idx - 1], grading)
    THEN idx
    ELSE rank_at(sorted, idx - 1, grading)

rank_entries(entries, grading) ==
    LET sorted == sort_entries(entries, grading)
    IN  [i \in 1 .. Len(sorted) |->
            [participant |-> sorted[i].participant, name |-> sorted[i].name,
             tops |-> sorted[i].tops, zones |-> sorted[i].zones,
             top_attempts |-> sorted[i].top_attempts,
             zone_attempts |-> sorted[i].zone_attempts,
             points |-> sorted[i].points, attempts |-> sorted[i].attempts,
             rank |-> rank_at(sorted, i, grading)]]

\* variant of group_results_by_participant that does not group
group_results_ungrouped(results, participant_id) == results

\* result_map.get(participant.id, ()) of group_results_by_participant(results)
group_results_by_participant(results, participant_id) ==
    {r \in results : r.participant = participant_id}

\* the scoring function build_scoreboard_entries picks; the view hands the
\* dynamic systems the tally over all results and len(participants)
\* settings is None when there is no CompetitionSettings row
scored(res_list, grading, settings, all_results, participant_count) ==
    IF grading = "point_based_dynamic_attempts" /\ settings /= None
    THEN score_point_based_dynamic_attempts(res_list, settings[1], all_results,
                                            participant_count)
    ELSE IF grading = "point_based_dynamic" /\ settings /= None
    THEN score_point_based_dynamic(res_list, settings[1], all_results,
                                   participant_count)
    ELSE IF grading = "point_based" /\ settings /= None
    THEN score_point_based(res_list, settings[1])
    ELSE score_ifsc(res_list)

\* participants is the sequence the view queried, ordered by name
build_scoreboard_entries(participants, results, grading, settings) ==
    rank_entries(
        [i \in 1 .. Len(participants) |->
            LET s == scored(group_results_by_participant(results, participants[i]),
                            grading, settings, results, Len(participants))
            IN  [participant |-> participants[i],
                 name |-> participant_name(participants[i]),
                 tops |-> s.tops, zones |-> s.zones,
                 top_attempts |-> s.top_attempts, zone_attempts |-> s.zone_attempts,
                 points |-> s.points, attempts |-> s.attempts]],
        grading)

(***************************************************************************)
(* participant_live_scoreboard (AJAX) and the scoreboard cache.            *)
(***************************************************************************)
\* number of age groups
NumAgeGroups == 1
AgeGroupIds == 1 .. NumAgeGroups

CacheKeys ==
    {scoreboard_key(g, gr) : g \in {AllGroups} \cup AgeGroupIds, gr \in GradingSystems}

\* the cohort of a scoreboard view: unlocked participants of the selected
\* group, or of any age group
cohort(group) ==
    IF group = AllGroups THEN {p \in Participants : age_group_id[p] /= 0}
    ELSE {p \in Participants : age_group_id[p] = group}

\* .order_by("name"): names are ordered as the participant ids are
ordered_by_name(ps) ==
    [i \in 1 .. Cardinality(ps) |->
        CHOOSE p \in ps : Cardinality({q \in ps : q < p}) = i - 1]

\* Result rows of the cohort with select_related("boulder")
results_of(table, ps) ==
    {[id |-> r.id, participant |-> r.participant, boulder |-> r.boulder,
      zone_count |-> zone_count[r.boulder],
      zone1 |-> r.zone1, zone2 |-> r.zone2, top |-> r.top,
      attempts_zone1 |-> r.attempts_zone1, attempts_zone2 |-> r.attempts_zone2,
      attempts_top |-> r.attempts_top, attempts |-> r.attempts] :
        r \in {x \in table : x.participant \in ps}}

\* lines 270-328: the JSON payload computed from the committed rows
scoreboard_payload(table, group, grading) ==
    LET participants == ordered_by_name(cohort(group))
        entries == build_scoreboard_entries(
                       participants, results_of(table, cohort(group)),
                       grading, Some(DefaultSettings))
    IN  [ok |-> TRUE,
         entries |-> [i \in 1 .. Len(entries) |->
                         [rank |-> entries[i].rank,
                          name |-> entries[i].name,
                          participant_id |-> entries[i].participant,
                          tops |-> entries[i].tops,
                          top_attempts |-> entries[i].top_attempts,
                          zones |-> entries[i].zones,
                          zone_attempts |-> entries[i].zone_attempts,
                          points |-> entries[i].points]],
         grading |-> grading]

\* the request picks its view: a group that has participants, or "all"
ScoreboardRequest ==
    /\ rpc = "idle"
    /\ \E g \in {AllGroups} \cup {age_group_id[p] : p \in Participants} :
        rkey' = g
    /\ rpc' = "get"
    /\ rdata' = None
    /\ rresp' = None
    /\ UNCHANGED <<fixed_vars, write_vars, cache, norm_vars, aux_vars>>

\* get_cached_scoreboard finds a payload, which is the response
CacheHit ==
    /\ rpc = "get"
    /\ cache[scoreboard_key(rkey, grading_system)] /= None
    /\ rresp' = cache[scoreboard_key(rkey, grading_system)]
    /\ rpc' = "idle"
    /\ UNCHANGED <<rkey, rdata>>
    /\ UNCHANGED <<fixed_vars, write_vars, cache, norm_vars, aux_vars>>

\* get_cached_scoreboard finds nothing: the scoreboard is computed
CacheMiss ==
    /\ rpc = "get"
    /\ cache[scoreboard_key(rkey, grading_system)] = None
    /\ rdata' = Some(scoreboard_payload(rows, rkey, grading_system))
    /\ rpc' = "store"
    /\ UNCHANGED <<rkey, rresp>>
    /\ UNCHANGED <<fixed_vars, write_vars, cache, norm_vars, aux_vars>>

\* cache_scoreboard, then the response
CacheStore ==
    /\ rpc = "store"
    /\ cache' = [cache EXCEPT ![scoreboard_key(rkey, grading_system)] = rdata]
    /\ rresp' = rdata
    /\ rdata' = None
    /\ rpc' = "idle"
    /\ UNCHANGED rkey
    /\ UNCHANGED <<fixed_vars, write_vars, norm_vars, aux_vars>>

\* variant of expired_entry for cache.set(..., timeout=None): the entry stays
unexpired_entry(entry) == entry

\* cache.set(cache_key, data, timeout=TIMING.SCOREBOARD_CACHE_TIMEOUT): what
\* is left of the entry when the timeout has passed
expired_entry(entry) == None

\* SCOREBOARD_CACHE_TIMEOUT passes for key k
Expire(k) ==
    /\ cache[k] /= None
    /\ cache' = [cache EXCEPT ![k] = expired_entry(@)]
    /\ UNCHANGED <<fixed_vars, write_vars, read_vars, norm_vars, aux_vars>>

(***************************************************************************)
(* The normalizer run on its own inputs.                                   *)
(***************************************************************************)
\* normalize_submission gets what extract_from_post made of a POST
NormFromPost ==
    /\ npc = "start"
    /\ \E post \in PostData, z \in ZoneCounts :
        /\ npost' = Some(post)
        /\ nsub' = extract_from_post(post)
        /\ nz' = z
    /\ npc' = "extracted"
    /\ UNCHANGED <<nout, nout2>>
    /\ UNCHANGED <<fixed_vars, write_vars, cache, read_vars, aux_vars>>

\* normalize_submission gets any SubmittedResult
NormDirect ==
    /\ npc = "start"
    /\ \E sub \in Submissions, z \in ZoneCounts :
        /\ nsub' = sub
        /\ nz' = z
    /\ npc' = "extracted"
    /\ UNCHANGED <<npost, nout, nout2>>
    /\ UNCHANGED <<fixed_vars, write_vars, cache, read_vars, aux_vars>>

NormApply ==
    /\ npc = "extracted"
    /\ nout' = normalize_submission(nz, nsub)
    /\ npc' = "normalized"
    /\ UNCHANGED <<nz, npost, nsub, nout2>>
    /\ UNCHANGED <<fixed_vars, write_vars, cache, read_vars, aux_vars>>

NormAgain ==
    /\ npc = "normalized"
    /\ nout2' = normalize_submission(nz, nout)
    /\ npc' = "renormalized"
    /\ UNCHANGED <<nz, npost, nsub, nout>>
    /\ UNCHANGED <<fixed_vars, write_vars, cache, read_vars, aux_vars>>

(***************************************************************************)
(* CompetitionSettings.save and ScoringService.get_active_settings.        *)
(***************************************************************************)
\* settings an admin can save: the field defaults; tiers, zone values and
\* floors that all differ, with a penalty that reaches the floors; a top
\* floor above flash_points; no penalty
TieredSettings ==
    [top_points |-> 25, flash_points |-> 30, min_top_points |-> 10,
     top_points_100 |-> 20, top_points_90 |-> 22, top_points_80 |-> 24,
     top_points_70 |-> 26, top_points_60 |-> 28, top_points_50 |-> 31,
     top_points_40 |-> 32, top_points_30 |-> 34, top_points_20 |-> 36,
     top_points_10 |-> 38,
     zone_points |-> 10, zone1_points |-> 8, zone2_points |-> 12,
     min_zone_points |-> 5, min_zone1_points |-> 4, min_zone2_points |-> 6,
     attempt_penalty |-> 20]
HighFloorSettings == [DefaultSettings EXCEPT !.min_top_points = 40]
NoPenaltySettings == [TieredSettings EXCEPT !.attempt_penalty = 0]
SettingsChoices ==
    {DefaultSettings, TieredSettings, HighFloorSettings, NoPenaltySettings}

\* variant of settings_cache_after_save for a save() that leaves the cache alone
settings_cache_kept(c) == c

\* cache.delete('competition_settings') in CompetitionSettings.save
settings_cache_after_save(c) == None

\* get_active_settings line 23: cache.get
GetCached ==
    /\ gpc = "idle"
    /\ gcached' = scache
    /\ gpc' = IF scache = None THEN "query" ELSE "return"
    /\ sraced' = (sraced \/ spc /= "idle")
    /\ UNCHANGED <<db_settings, scache, gret, spc>>
    /\ UNCHANGED <<fixed_vars, write_vars, cache, read_vars, norm_vars, score_vars, rank_vars>>

\* line 25: CompetitionSettings.objects.order_by(...).first()
GetQuery ==
    /\ gpc = "query"
    /\ gcached' = db_settings
    /\ gpc' = IF db_settings /= None THEN "set" ELSE "return"
    /\ UNCHANGED <<db_settings, scache, gret, spc, sraced>>
    /\ UNCHANGED <<fixed_vars, write_vars, cache, read_vars, norm_vars, score_vars, rank_vars>>

\* line 27: cache.set
GetSet ==
    /\ gpc = "set"
    /\ scache' = gcached
    /\ gpc' = "return"
    /\ UNCHANGED <<db_settings, gcached, gret, spc, sraced>>
    /\ UNCHANGED <<fixed_vars, write_vars, cache, read_vars, norm_vars, score_vars, rank_vars>>

\* line 29: return cached
GetReturn ==
    /\ gpc = "return"
    /\ gret' = gcached
    /\ gpc' = "idle"
    /\ UNCHANGED <<db_settings, scache, gcached, spc, sraced>>
    /\ UNCHANGED <<fixed_vars, write_vars, cache, read_vars, norm_vars, score_vars, rank_vars>>

\* CompetitionSettings.save line 352: super().save()
SaveRow ==
    /\ spc = "idle"
    /\ \E new \in SettingsChoices : db_settings' = Some(new)
    /\ spc' = "delete"
    /\ sraced' = (sraced \/ gpc /= "idle")
    /\ UNCHANGED <<scache, gpc, gcached, gret>>
    /\ UNCHANGED <<fixed_vars, write_vars, cache, read_vars, norm_vars, score_vars, rank_vars>>

\* CompetitionSettings.save line 354: cache.delete, then save returns
SaveDelete ==
    /\ spc = "delete"
    /\ scache' = settings_cache_after_save(scache)
    /\ spc' = "idle"
    /\ UNCHANGED <<db_settings, gpc, gcached, gret, sraced>>
    /\ UNCHANGED <<fixed_vars, write_vars, cache, read_vars, norm_vars, score_vars, rank_vars>>

\* SETTINGS_CACHE_TIMEOUT passes
SettingsExpire ==
    /\ scache /= None
    /\ scache' = None
    /\ UNCHANGED <<db_settings, gpc, gcached, gret, spc, sraced>>
    /\ UNCHANGED <<fixed_vars, write_vars, cache, read_vars, norm_vars, score_vars, rank_vars>>

(***************************************************************************)
(* rank_entries and build_scoreboard_entries run on their own inputs.      *)
(***************************************************************************)
\* longest list of entries handed to rank_entries
MaxEntries == 3
\* largest value of a score field of an entry
MaxScore == 1
\* letters of participant names
NumLetters == 2

\* Participant.name: "A", "a", "B" (one lower-case name suffices to tell
\* name.lower() from name)
EntryNames ==
    {[letter |-> l, upper |-> TRUE] : l \in 1 .. NumLetters}
    \cup {[letter |-> 1, upper |-> FALSE]}

\* the dicts build_scoreboard_entries makes: the point systems fill points
\* and attempts, score_ifsc fills top_attempts and zone_attempts
EntryScores(grading) ==
    IF grading \in POINT_BASED_SYSTEMS
    THEN [tops : 0 .. MaxScore, zones : 0 .. MaxScore,
          points : 0 .. MaxScore, attempts : 0 .. MaxScore,
          top_attempts : {0}, zone_attempts : {0}]
    ELSE [tops : 0 .. MaxScore, zones : 0 .. MaxScore,
          points : {0}, attempts : {0},
          top_attempts : 0 .. MaxScore, zone_attempts : 0 .. MaxScore]

entry_of(i, name, sc) ==
    [participant |-> i, name |-> name,
     tops |-> sc.tops, zones |-> sc.zones,
     top_attempts |-> sc.top_attempts, zone_attempts |-> sc.zone_attempts,
     points |-> sc.points, attempts |-> sc.attempts]

\* a caller hands rank_entries a list of up to MaxEntries entries, the i-th
\* for participant i
RankInput ==
    /\ kpc = "start"
    /\ \E grading \in GradingSystems, n \in 0 .. MaxEntries :
        /\ kgrading' = grading
        /\ \E pick \in [1 .. n -> EntryNames \X EntryScores(grading)] :
               kentries' = [i \in 1 .. n |-> entry_of(i, pick[i][1], pick[i][2])]
    /\ kpc' = "entries"
    /\ UNCHANGED <<kparticipants, kresults, ksettings, kout>>
    /\ UNCHANGED <<fixed_vars, write_vars, cache, read_vars, norm_vars, settings_vars, score_vars>>

\* rank_entries(entries, grading_system)
RankApply ==
    /\ kpc = "entries"
    /\ kout' = Some(rank_entries(kentries, kgrading))
    /\ kpc' = "ranked"
    /\ UNCHANGED <<kgrading, kentries, kparticipants, kresults, ksettings>>
    /\ UNCHANGED <<fixed_vars, write_vars, cache, read_vars, norm_vars, settings_vars, score_vars>>

(***************************************************************************)
(* Initial states and specifications.                                      *)
(***************************************************************************)
\* results an earlier submission can have stored
SeedSubmissions ==
    {SubmittedResult(TRUE, TRUE, TRUE, 1, 1, 2, NoVersion),
     SubmittedResult(TRUE, FALSE, FALSE, 1, 0, 0, NoVersion)}

\* size of the cohort and number of boulders handed to build_scoreboard_entries
NumBoardParticipants == 3
NumBoardBoulders == 2

\* boulder 1 has one zone, the others two
board_zone_count(b) == IF b = 1 THEN 1 ELSE 2

\* what a participant can have stored for a boulder: a zone, a top after
\* two attempts, a flash
BoardSubmissions ==
    SeedSubmissions \cup {SubmittedResult(TRUE, TRUE, TRUE, 1, 1, 1, NoVersion)}

\* the Result row, joined with its boulder, that handle_submission stores
board_result(p, b, sub) ==
    LET row == result_row((p - 1) * NumBoardBoulders + b, p, b,
                          normalize_submission(board_zone_count(b), sub),
                          InitialVersion)
    IN  [id |-> row.id, participant |-> p, boulder |-> b,
         zone_count |-> board_zone_count(b),
         zone1 |-> row.zone1, zone2 |-> row.zone2, top |-> row.top,
         attempts_zone1 |-> row.attempts_zone1,
         attempts_zone2 |-> row.attempts_zone2,
         attempts_top |-> row.attempts_top, attempts |-> row.attempts]

\* the view hands over a cohort, its results, the grading system and the
\* settings
BuildInput ==
    /\ kpc = "start"
    /\ \E n \in 0 .. NumBoardParticipants :
        \E climbed \in SUBSET ((1 .. n) \X (1 .. NumBoardBoulders)) :
            \E pick \in [climbed -> BoardSubmissions] :
                /\ kparticipants' = [i \in 1 .. n |-> i]
                /\ kresults' = {board_result(pb[1], pb[2], pick[pb]) : pb \in climbed}
    /\ kgrading' \in GradingSystems
    /\ ksettings' \in {None, Some(DefaultSettings), Some(TieredSettings)}
    /\ kpc' = "cohort"
    /\ UNCHANGED <<kentries, kout>>
    /\ UNCHANGED <<fixed_vars, write_vars, cache, read_vars, norm_vars, settings_vars, score_vars>>

\* build_scoreboard_entries(participants, result_map, grading_system, settings)
BuildApply ==
    /\ kpc = "cohort"
    /\ kout' = Some(build_scoreboard_entries(kparticipants, kresults, kgrading, ksettings))
    /\ kpc' = "built"
    /\ UNCHANGED <<kgrading, kentries, kparticipants, kresults, ksettings>>
    /\ UNCHANGED <<fixed_vars, write_vars, cache, read_vars, norm_vars, settings_vars, score_vars>>

InitNorm ==
    /\ npc = "start"
    /\ nz = 0
    /\ npost = None
    /\ nsub = BlankSubmission
    /\ nout = BlankSubmission
    /\ nout2 = BlankSubmission

InitTable ==
    /\ zone_count \in [Boulders -> ZoneCounts]
    /\ age_group_id \in [Participants -> 0 .. NumAgeGroups]
    /\ \E present \in SUBSET (Participants \X Boulders) :
        \E pick \in [present -> Submissions \X (1 .. MaxVersion)] :
            /\ \A pb \in present : pick[pb][1] \in SeedSubmissions
            /\ rows = {result_row((pb[1] - 1) * NumBoulders + pb[2], pb[1], pb[2],
                                  normalize_submission(zone_count[pb[2]], pick[pb][1]),
                                  pick[pb][2]) : pb \in present}
    /\ next_id = NumParticipants * NumBoulders + 1

InitRequests ==
    /\ wpc = [w \in Writers |-> "idle"]
    /\ wpart = [w \in Writers |-> 1]
    /\ wb = [w \in Writers |-> 1]
    /\ wsub = [w \in Writers |-> BlankSubmission]
    /\ wcur = [w \in Writers |-> None]
    /\ wtx = [w \in Writers |-> {}]
    /\ wlocks = [w \in Writers |-> {}]
    /\ payload = [w \in Writers |-> [b \in Boulders |-> None]]
    /\ wlog = [w \in Writers |-> [b \in Boulders |-> NoLog]]
    /\ cache = [k \in CacheKeys |-> None]
    /\ rpc = "idle"
    /\ rkey = AllGroups
    /\ rdata = None
    /\ rresp = None

\* no settings call, scoring run or ranking run is under way
InitSettings ==
    /\ db_settings = Some(DefaultSettings)
    /\ scache = None
    /\ gpc = "idle"
    /\ gcached = None
    /\ gret = None
    /\ spc = "idle"
    /\ sraced = FALSE

InitScore ==
    /\ fpc = "start"
    /\ fgrading = "ifsc"
    /\ fsettings = DefaultSettings
    /\ fresults = {}
    /\ fall = {}
    /\ fcount = 0
    /\ fpct = top_percentage(0, 0)
    /\ fout = None

InitRank ==
    /\ kpc = "start"
    /\ kgrading = "ifsc"
    /\ kentries = <<>>
    /\ kparticipants = <<>>
    /\ kresults = {}
    /\ ksettings = None
    /\ kout = None

Init ==
    /\ InitTable
    /\ grading_system \in GradingSystems
    /\ InitRequests
    /\ InitNorm
    /\ InitSettings
    /\ InitScore
    /\ InitRank

\* the steps of a POST whose INSERT meets no other transaction
WriteAlone(w) ==
    \/ Submit(w)
    \/ SubmitOutsideWindow(w)
    \/ SelectForUpdate(w)
    \/ RejectStale(w)
    \/ SaveExisting(w)
    \/ SaveNew(w)
    \/ Commit(w)
    \/ Invalidate(w)

Write(w) ==
    \/ WriteAlone(w)
    \/ SaveNewFails(w)

\* concurrent result submissions
Next == \E w \in Writers : Write(w)

Spec == Init /\ [][Next]_vars

\* one result submission beside scoreboard requests
NextCache ==
    \/ WriteAlone(1)
    \/ ScoreboardRequest
    \/ CacheHit
    \/ CacheMiss
    \/ CacheStore
    \/ \E k \in CacheKeys : Expire(k)

SpecCache == Init /\ [][NextCache]_vars

\* the normalizer alone
InitNormOnly ==
    /\ zone_count = [b \in Boulders |-> 0]
    /\ age_group_id = [p \in Participants |-> 0]
    /\ grading_system = "ifsc"
    /\ rows = {}
    /\ next_id = 1
    /\ InitRequests
    /\ InitNorm
    /\ InitSettings
    /\ InitScore
    /\ InitRank

NextNorm ==
    \/ NormFromPost
    \/ NormDirect
    \/ NormApply
    \/ NormAgain

SpecNorm == InitNormOnly /\ [][NextNorm]_vars

(***************************************************************************)
(* Properties.                                                             *)
(***************************************************************************)
\* the request found a stored Result for b and has decided what to do with it
Decided(w, b) == wlog[w][b].outcome \in {"rejected", "updated"}

\* C1: when handle_submission has read a stored Result and the submission
\* carries a version other than the stored one, its next step leaves the
\* table (committed rows and every open transaction) unchanged, puts the
\* stored state into the payload of that boulder and goes on normally
\* (next boulder or commit), without raising.
C1_StaleVersionRejected ==
    [][\A w \in Writers :
          (/\ wpc[w] = "decide"
           /\ wcur[w] /= None
           /\ wsub[w].version /= NoVersion
           /\ wsub[w].version[1] /= wcur[w][1].version
           /\ wpc'[w] /= "decide")
          => /\ rows' = rows
             /\ wtx' = wtx
             /\ payload'[w][current_boulder(w)] = Some(result_to_payload(wcur[w][1]))
             /\ wpc'[w] \in {"select", "commit"}]_vars

\* C1 witness: a request returned normally with a payload whose version is
\* not the one it submitted, after its write was rejected.
C1_Witness ==
    \E w \in Writers, b \in Boulders :
        /\ wpc[w] = "done"
        /\ wlog[w][b].outcome = "rejected"
        /\ wlog[w][b].sub_version /= NoVersion
        /\ payload[w][b] /= None
        /\ payload[w][b][1].version /= wlog[w][b].sub_version[1]
        /\ \E r \in matching(rows, wpart[w], b) :
               result_to_payload(r) = payload[w][b][1]

\* C2: a stored Result is overwritten only by a submission that carries the
\* version stored at the moment of the write.
C2_OnlyMatchingVersionOverwrites ==
    \A w \in Writers, b \in Boulders :
        wlog[w][b].outcome = "updated"
            => wlog[w][b].sub_version = wlog[w][b].stored_version

C4_UniquePerClimb ==
    \A p \in Participants, b \in Boulders : Cardinality(matching(rows, p, b)) <= 1

\* C4 witness: two first-ever submissions for one climb ran together; one
\* created the row, the other's INSERT failed.
C4_Witness ==
    \E w1 \in Writers, w2 \in Writers, b \in Boulders :
        /\ w1 /= w2
        /\ wpart[w1] = wpart[w2]
        /\ wlog[w1][b].outcome = "created"
        /\ wpc[w1] = "done"
        /\ wpc[w2] = "failed"
        /\ boulders_of(wpart[w2])[wb[w2]] = b
        /\ Cardinality(matching(rows, wpart[w1], b)) = 1

FlagInvariant(r, zc) ==
    /\ r.top => (zc >= 1 => r.zone1) /\ (zc >= 2 => r.zone2)
    /\ r.zone2 => r.zone1
    /\ zc = 0 => ~r.zone1 /\ ~r.zone2
    /\ zc = 1 => ~r.zone2

\* C5: every stored Result, committed or written in an open transaction,
\* satisfies the flag invariants of its boulder's zone_count.
C5_StoredFlagsConsistent ==
    \A r \in rows \cup UNION {wtx[w] : w \in Writers} :
        FlagInvariant(r, zone_count[r.boulder])

\* C5 witness: a committed Result whose submitted flags the normalizer had
\* to change.
C5_Witness ==
    \E w \in Writers, b \in Boulders :
        /\ wpc[w] = "done"
        /\ wlog[w][b].outcome \in {"updated", "created"}
        /\ wlog[w][b].flags_fixed
        /\ \E r \in matching(rows, wpart[w], b) :
               result_to_payload(r) = payload[w][b][1] /\ r.top

Normalized == npc \in {"normalized", "renormalized"}

\* C6: normalizing a normalized result again returns it unchanged.
C6_NormalizeIdempotent == npc = "renormalized" => nout2 = nout

\* C6 witness: a two-zone submission with a negative count, which the
\* normalizer changed, was normalized twice.
C6_Witness ==
    /\ npc = "renormalized"
    /\ nz = 2
    /\ nsub.top
    /\ nsub.attempts_zone2 < 0
    /\ nsub.attempts_top < nsub.attempts_zone1
    /\ nout /= nsub

\* C7 as stated: top => zone1 /\ (zone_count < 2 \/ zone2), and zone2 => zone1,
\* for every zone_count.
C7_AsStated ==
    Normalized =>
        /\ nout.top => nout.zone1 /\ (nz < 2 \/ nout.zone2)
        /\ nout.zone2 => nout.zone1

\* C7 amended: top implies the zones the boulder has (zone1 when
\* zone_count >= 1, zone2 when zone_count = 2), and zone2 => zone1.
C7_TopImpliesAvailableZones ==
    Normalized =>
        /\ nout.top => (nz >= 1 => nout.zone1) /\ (nz >= 2 => nout.zone2)
        /\ nout.zone2 => nout.zone1

\* C7 witness: a two-zone submission with top alone was normalized.
C7_Witness ==
    /\ Normalized
    /\ nz = 2
    /\ nsub.top /\ ~nsub.zone1 /\ ~nsub.zone2
    /\ nout.top

\* C8: in a normalized result every achieved flag has at least 1 attempt,
\* and attempts_top >= attempts_zone2 >= attempts_zone1 (two zones) resp.
\* attempts_top >= attempts_zone1 (one zone) for the flags that are set.
C8_AttemptsOrdered ==
    Normalized =>
        /\ nout.top => nout.attempts_top >= 1
        /\ nout.zone1 => nout.attempts_zone1 >= 1
        /\ nout.zone2 => nout.attempts_zone2 >= 1
        /\ nz = 2 /\ nout.top /\ nout.zone2 => nout.attempts_top >= nout.attempts_zone2
        /\ nz = 2 /\ nout.zone2 /\ nout.zone1 => nout.attempts_zone2 >= nout.attempts_zone1
        /\ nz >= 1 /\ nout.top /\ nout.zone1 => nout.attempts_top >= nout.attempts_zone1

\* C8 witness: a two-zone top submitted with fewer top attempts than zone
\* attempts was normalized.
C8_Witness ==
    /\ Normalized
    /\ nz = 2
    /\ nsub.top
    /\ nsub.attempts_top >= 1
    /\ nsub.attempts_top < nsub.attempts_zone2
    /\ nsub.attempts_zone2 < nsub.attempts_zone1

\* C9: normalize_submission yields a SubmittedResult for every input, with
\* three non-negative attempt counts; a POST with a non-numeric count gives
\* a submission whose counts are 0.
C9_NormalizerTotal ==
    /\ Normalized =>
        /\ nout.attempts_zone1 \in Nat
        /\ nout.attempts_zone2 \in Nat
        /\ nout.attempts_top \in Nat
        /\ nout.zone1 \in BOOLEAN /\ nout.zone2 \in BOOLEAN /\ nout.top \in BOOLEAN
        /\ nout.version = nsub.version
    /\ (npost /= None /\ ~is_valid(npost[1])) =>
        /\ nsub.attempts_zone1 = 0
        /\ nsub.attempts_zone2 = 0
        /\ nsub.attempts_top = 0

\* C9 witness: a POST with a non-numeric and a negative count went through
\* extract_from_post and the normalizer.
C9_Witness ==
    /\ Normalized
    /\ npost /= None
    /\ npost[1].attempts_top.kind = "bad"
    /\ npost[1].attempts_zone1.kind = "int"
    /\ npost[1].attempts_zone1.val < 0
    /\ npost[1].sent
    /\ nout.attempts_top = 0

Wrote(w) == \E b \in Boulders : wlog[w][b].outcome \in {"updated", "created"}

\* C10: when handle_submission has written a Result and finished its cache
\* deletes, the cache holds no scoreboard for the participant's age group
\* nor for "all", under any of the four grading systems.
C10_WriteInvalidatesScoreboards ==
    [][\A w \in Writers :
          (wpc[w] = "invalidate" /\ wpc'[w] = "done" /\ Wrote(w))
          => \A g \in GradingSystems :
                /\ cache'[scoreboard_key(age_group_id[wpart[w]], g)] = None
                /\ cache'[scoreboard_key(AllGroups, g)] = None]_vars

(***************************************************************************)
(* The settings cache.                                                     *)
(***************************************************************************)
\* everything but the settings cache stands still
InitQuiet ==
    /\ zone_count = [b \in Boulders |-> 0]
    /\ age_group_id = [p \in Participants |-> 0]
    /\ grading_system = "ifsc"
    /\ rows = {}
    /\ next_id = 1
    /\ InitRequests
    /\ InitNorm

InitSettingsOnly ==
    /\ InitQuiet
    /\ db_settings \in {None, Some(DefaultSettings)}
    /\ scache = None
    /\ gpc = "idle"
    /\ gcached = None
    /\ gret = None
    /\ spc = "idle"
    /\ sraced = FALSE
    /\ InitScore
    /\ InitRank

NextSettings ==
    \/ GetCached
    \/ GetQuery
    \/ GetSet
    \/ GetReturn
    \/ SaveRow
    \/ SaveDelete
    \/ SettingsExpire

SpecSettings == InitSettingsOnly /\ [][NextSettings]_vars

\* C11: when CompetitionSettings.save returns, the key 'competition_settings'
\* is absent from the cache; and as long as no save has overlapped a
\* get_active_settings call, every get_active_settings returns the settings
\* row as it is stored at that moment.
C11_SaveInvalidatesSettingsCache ==
    [][/\ (spc = "delete" /\ spc' = "idle") => scache' = None
       /\ (gpc = "return" /\ gpc' = "idle" /\ ~sraced) => gret' = db_settings]_vars

\* C11 witness: a save has replaced the initial row, no call overlapped it,
\* and the get_active_settings call that followed returned and cached the
\* new row.
C11_Witness ==
    /\ ~sraced
    /\ gpc = "idle"
    /\ spc = "idle"
    /\ gret = Some(TieredSettings)
    /\ db_settings = Some(TieredSettings)
    /\ scache = Some(TieredSettings)

(***************************************************************************)
(* The scoreboard cache over time.                                         *)
(***************************************************************************)
\* the steps of SpecCache that are CacheMiss steps, told by the positions
CacheMissStep ==
    /\ rpc = "get"
    /\ cache[scoreboard_key(rkey, grading_system)] = None
    /\ rpc' = "store"

\* every request is answered, the page keeps polling, and every cached
\* entry meets its timeout
SpecCacheLive ==
    /\ SpecCache
    /\ WF_vars(ScoreboardRequest)
    /\ WF_vars(CacheHit)
    /\ WF_rpc(CacheMissStep)
    /\ WF_vars(CacheStore)
    /\ \A k \in CacheKeys : WF_vars(Expire(k))

WritesStopped == wpc[1] \in {"done", "forbidden"}

\* the payload a live query would produce for key k
live_payload(k) == Some(scoreboard_payload(rows, k[1], k[2]))

ServedLive ==
    /\ \A k \in CacheKeys : cache[k] /= None => cache[k] = live_payload(k)
    /\ rresp /= None => rresp = live_payload(scoreboard_key(rkey, grading_system))

\* C12: once the result writes have stopped, there comes a moment from which
\* on every cached scoreboard and every scoreboard response is the payload
\* computed from the stored results.
C12_StaleScoreboardEnds == WritesStopped ~> []ServedLive

\* C12 witness: the writes have stopped after a Result was written, and the
\* cache still holds a payload computed before the write.
C12_Witness ==
    /\ WritesStopped
    /\ Wrote(1)
    /\ \E k \in CacheKeys : cache[k] /= None /\ cache[k] /= live_payload(k)

(***************************************************************************)
(* Ranking.                                                                *)
(***************************************************************************)
InitRankOnly ==
    /\ InitQuiet
    /\ InitSettings
    /\ InitScore
    /\ InitRank

NextRank ==
    \/ RankInput
    \/ RankApply
    \/ BuildInput
    \/ BuildApply

SpecRank == InitRankOnly /\ [][NextRank]_vars

Ranked == kpc \in {"ranked", "built"}

\* the list handed to rank_entries
ranked_input ==
    IF kpc = "ranked" THEN kentries
    ELSE [i \in 1 .. Len(kparticipants) |-> [participant |-> kparticipants[i]]]

\* C13: over the list rank_entries returns, the first entry has rank 1, an
\* entry whose sort key equals its predecessor's has the predecessor's rank,
\* any other entry has its 1-based position as rank; so equal keys share a
\* rank and ranks never decrease; the list is as long as the one handed in
\* (an empty list stays empty).
C13_CompetitionRanks ==
    Ranked =>
        LET out == kout[1]
            key(i) == sort_key(out[i], kgrading)
        IN  /\ Len(out) = Len(ranked_input)
            /\ \A i \in 1 .. Len(out) :
                /\ i = 1 => out[i].rank = 1
                /\ (i > 1 /\ key(i) = key(i - 1)) => out[i].rank = out[i - 1].rank
                /\ (i > 1 /\ key(i) /= key(i - 1)) => out[i].rank = i
            /\ \A i \in 1 .. Len(out), j \in 1 .. Len(out) :
                /\ key(i) = key(j) => out[i].rank = out[j].rank
                /\ i <= j => out[i].rank <= out[j].rank

\* C13 witness: three entries were ranked 1, 1, 3.
C13_Witness ==
    /\ kpc = "ranked"
    /\ Len(kout[1]) = 3
    /\ kout[1][1].rank = 1
    /\ kout[1][2].rank = 1
    /\ kout[1][3].rank = 3

\* name.lower() as a number
folded(e) == e.name.letter

\* a is not placed after b by the point-based order
PointOrder(a, b) ==
    \/ a.points > b.points
    \/ /\ a.points = b.points
       /\ \/ a.tops > b.tops
          \/ /\ a.tops = b.tops
             /\ \/ a.zones > b.zones
                \/ /\ a.zones = b.zones
                   /\ \/ a.attempts < b.attempts
                      \/ /\ a.attempts = b.attempts
                         /\ folded(a) <= folded(b)

\* x attempts of a, +infinity when a has no count, against those of b
FewerAttempts(counta, xa, countb, xb) ==
    IF counta = 0 THEN FALSE ELSE (countb = 0 \/ xa < xb)
SameAttempts(counta, xa, countb, xb) ==
    IF counta = 0 THEN countb = 0 ELSE (countb /= 0 /\ xa = xb)

\* a is not placed after b by the IFSC order
IfscOrder(a, b) ==
    \/ a.tops > b.tops
    \/ /\ a.tops = b.tops
       /\ \/ a.zones > b.zones
          \/ /\ a.zones = b.zones
             /\ \/ FewerAttempts(a.tops, a.top_attempts, b.tops, b.top_attempts)
                \/ /\ SameAttempts(a.tops, a.top_attempts, b.tops, b.top_attempts)
                   /\ \/ FewerAttempts(a.zones, a.zone_attempts,
                                       b.zones, b.zone_attempts)
                      \/ /\ SameAttempts(a.zones, a.zone_attempts,
                                         b.zones, b.zone_attempts)
                         /\ folded(a) <= folded(b)

InOrder(out, grading) ==
    \A i \in 1 .. Len(out), j \in 1 .. Len(out) :
        i < j => IF grading \in POINT_BASED_SYSTEMS
                 THEN PointOrder(out[i], out[j])
                 ELSE IfscOrder(out[i], out[j])

\* C14: rank_entries returns the entries handed in, each once and with its
\* scores untouched, ordered by (-points, -tops, -zones, attempts, folded
\* name) under the three point-based systems and by (-tops, -zones,
\* top_attempts or +infinity, zone_attempts or +infinity, folded name) under
\* IFSC; an IFSC entry without a top stands behind every entry with a top.
C14_OrderedByGradingKey ==
    kpc = "ranked" =>
        LET out == kout[1]
        IN  /\ InOrder(out, kgrading)
            /\ Len(out) = Len(kentries)
            /\ \A e \in 1 .. Len(kentries) :
                \E i \in 1 .. Len(out) :
                    /\ out[i].participant = kentries[e].participant
                    /\ [kentries[e] EXCEPT !.participant = out[i].participant]
                           = [f \in DOMAIN kentries[e] |-> out[i][f]]
            /\ kgrading = "ifsc" =>
                \A i \in 1 .. Len(out), j \in 1 .. Len(out) :
                    (out[i].tops = 0 /\ out[j].tops > 0) => j < i

\* C14 witness: under IFSC two entries without a top and with as many zones
\* were ordered by their zone attempts against their top_attempts fields,
\* and two names were ordered against their upper-case order.
C14_Witness ==
    /\ kpc = "ranked"
    /\ kgrading = "ifsc"
    /\ Len(kout[1]) = 3
    /\ kout[1][1].tops = 0
    /\ kout[1][2].tops = 0
    /\ kout[1][1].zones = kout[1][2].zones
    /\ kout[1][1].zones > 0
    /\ kout[1][1].top_attempts > kout[1][2].top_attempts
    /\ kout[1][1].zone_attempts < kout[1][2].zone_attempts
    /\ sort_key(kout[1][2], kgrading) /= sort_key(kout[1][3], kgrading)
    /\ ~kout[1][2].name.upper
    /\ kout[1][3].name.upper
    /\ kout[1][1].participant > kout[1][2].participant

own_results(p) == {r \in kresults : r.participant = p}

\* C15: build_scoreboard_entries returns one entry per participant of the
\* cohort; its aggregate is the scoring function's value for the
\* participant's own results, with tops counting only own tops; a
\* participant without results has an all-zero aggregate and a rank; the
\* list is in ranked order.
C15_OneEntryPerParticipant ==
    kpc = "built" =>
        LET out == kout[1]
            n == Len(kparticipants)
        IN  /\ Len(out) = n
            /\ \A i \in 1 .. n :
                   Cardinality({j \in 1 .. n : out[j].participant = kparticipants[i]}) = 1
            /\ \A j \in 1 .. Len(out) :
                LET e == out[j]
                    own == own_results(e.participant)
                    sc == scored(own, kgrading, ksettings, kresults, n)
                IN  /\ e.tops = Cardinality({r \in own : r.top})
                    /\ e.tops = sc.tops /\ e.zones = sc.zones
                    /\ e.points = sc.points /\ e.attempts = sc.attempts
                    /\ e.top_attempts = sc.top_attempts
                    /\ e.zone_attempts = sc.zone_attempts
                    /\ e.name = participant_name(e.participant)
                    /\ own = {} =>
                        /\ e.tops = 0 /\ e.zones = 0 /\ e.points = 0
                        /\ e.attempts = 0 /\ e.top_attempts = 0
                        /\ e.zone_attempts = 0
                        /\ e.rank \in 1 .. n
                    /\ j > 1 => out[j - 1].rank <= e.rank
            /\ InOrder(out, kgrading)

\* C15 witness: a cohort of three was built in which one participant has no
\* result, another has a top, and the list is not in the order handed in.
C15_Witness ==
    /\ kpc = "built"
    /\ Len(kout[1]) = 3
    /\ own_results(kout[1][3].participant) = {}
    /\ kout[1][3].rank = 3
    /\ kout[1][1].tops > 0
    /\ kout[1][1].participant = 3
    /\ kout[1][2].zones > 0
    /\ kgrading = "point_based_dynamic"
    /\ ksettings /= None

(***************************************************************************)
(* The scoring functions applied to one participant's results.             *)
(***************************************************************************)
\* largest attempt count of a stored Result, largest cohort, and the
\* denominator of the percentages handed to get_dynamic_top_points
MaxStoredAttempt == 2
MaxCohort == 3
PctScale == 10

\* a Result row joined with its boulder; the attempt fields are
\* PositiveIntegerFields, 0 when never recorded
stored_result(p, b, zc, flags, a) ==
    [id |-> (p - 1) * NumBoardBoulders + b, participant |-> p, boulder |-> b,
     zone_count |-> zc,
     zone1 |-> flags[1], zone2 |-> flags[2], top |-> flags[3],
     attempts_zone1 |-> a[1], attempts_zone2 |-> a[2],
     attempts_top |-> a[3], attempts |-> a[4]]

\* every row the table can hold for participant 1 on boulder 1, written by
\* handle_submission, migrated from the flat attempts field, or edited
StoredResults ==
    {stored_result(1, 1, zc, flags, a) :
        zc \in ZoneCounts,
        flags \in BOOLEAN \X BOOLEAN \X BOOLEAN,
        a \in (0 .. MaxStoredAttempt) \X (0 .. MaxStoredAttempt)
              \X (0 .. MaxStoredAttempt) \X (0 .. MaxStoredAttempt)}

\* a scoring function is handed the results of participant 1: at most one
\* row for boulder 1 and one for boulder 2, with the cohort size and the
\* results the tops are tallied from: the cohort's, or none (a tally that
\* lacks the boulders)
ScoreInput ==
    /\ fpc = "start"
    /\ fgrading' \in GradingSystems
    /\ fsettings' \in SettingsChoices
    /\ \E first \in {{}} \cup {{r} : r \in StoredResults},
          second \in {{}} \cup {{sub} : sub \in BoardSubmissions},
          count \in 0 .. MaxCohort :
        /\ fresults' = first \cup {board_result(1, 2, sub) : sub \in second}
        /\ fcount' = count
        /\ \E others \in 0 .. Max(count - 1, 0), tallied \in BOOLEAN :
            /\ tallied \/ (others = 0 /\ count \in {0, MaxCohort})
            /\ fall' = IF tallied
                       THEN fresults'
                            \cup {stored_result(q + 1, 1, 1, <<TRUE, FALSE, TRUE>>,
                                                <<1, 0, 1, 1>>) : q \in 1 .. others}
                       ELSE {}
    /\ fpc' = "results"
    /\ UNCHANGED <<fpct, fout>>
    /\ UNCHANGED <<fixed_vars, write_vars, cache, read_vars, norm_vars, settings_vars, rank_vars>>

\* the scoring function of a grading system, called with a settings row
score_by(grading, results, settings, all_results, participant_count) ==
    IF grading = "point_based_dynamic_attempts"
    THEN score_point_based_dynamic_attempts(results, settings, all_results,
                                            participant_count)
    ELSE IF grading = "point_based_dynamic"
    THEN score_point_based_dynamic(results, settings, all_results, participant_count)
    ELSE IF grading = "point_based"
    THEN score_point_based(results, settings)
    ELSE score_ifsc(results)

\* score_ifsc, score_point_based, score_point_based_dynamic or
\* score_point_based_dynamic_attempts
ScoreApply ==
    /\ fpc = "results"
    /\ fout' = Some(score_by(fgrading, fresults, fsettings, fall, fcount))
    /\ fpc' = "scored"
    /\ UNCHANGED <<fgrading, fsettings, fresults, fall, fcount, fpct>>
    /\ UNCHANGED <<fixed_vars, write_vars, cache, read_vars, norm_vars, settings_vars, rank_vars>>

\* get_dynamic_top_points is handed a percentage between 0 and 100
TierInput ==
    /\ fpc = "start"
    /\ fsettings' \in SettingsChoices
    /\ \E k \in 0 .. 100 * PctScale : fpct' = [num |-> k, den |-> PctScale]
    /\ fpc' = "percentage"
    /\ UNCHANGED <<fgrading, fresults, fall, fcount, fout>>
    /\ UNCHANGED <<fixed_vars, write_vars, cache, read_vars, norm_vars, settings_vars, rank_vars>>

\* get_dynamic_top_points(settings, top_percentage)
TierApply ==
    /\ fpc = "percentage"
    /\ fout' = Some(get_dynamic_top_points(fsettings, fpct))
    /\ fpc' = "tier"
    /\ UNCHANGED <<fgrading, fsettings, fresults, fall, fcount, fpct>>
    /\ UNCHANGED <<fixed_vars, write_vars, cache, read_vars, norm_vars, settings_vars, rank_vars>>

InitScoreOnly ==
    /\ InitQuiet
    /\ InitSettings
    /\ InitScore
    /\ InitRank

NextScore ==
    \/ ScoreInput
    \/ ScoreApply
    \/ TierInput
    \/ TierApply

SpecScore == InitScoreOnly /\ [][NextScore]_vars

Scored == fpc = "scored"

\* the split attempt field, or the flat one when the split field reads 0
with_fallback(split, flat) == IF split = 0 THEN flat ELSE split

IfscAsDescribed(top_count, zone_count_of) ==
    LET out == fout[1]
        topped == {r \in fresults : r.top}
        zoned == {r \in fresults : r.zone1 \/ r.zone2}
    IN  /\ out.tops = Cardinality(topped)
        /\ out.top_attempts = SumFn([r \in topped |-> top_count[r]])
        /\ out.zones = Cardinality(zoned)
        /\ out.zone_attempts = SumFn([r \in zoned |-> zone_count_of[r]])
        /\ fresults = {} =>
            /\ out.tops = 0 /\ out.top_attempts = 0
            /\ out.zones = 0 /\ out.zone_attempts = 0

\* C16 as stated: score_ifsc returns tops = number of results with top,
\* top_attempts = sum of attempts_top over those, zones = number of results
\* with zone1 or zone2, zone_attempts = sum over those of attempts_zone2 when
\* zone2 is set and of attempts_zone1 otherwise; the empty list gives zeros.
C16_AsStated ==
    (Scored /\ fgrading = "ifsc") =>
        IfscAsDescribed(
            [r \in fresults |-> r.attempts_top],
            [r \in fresults |->
                IF r.zone2 THEN r.attempts_zone2 ELSE r.attempts_zone1])

\* C16: score_ifsc returns tops = number of results with top, top_attempts =
\* sum over those of attempts_top, or of the flat attempts field where
\* attempts_top reads 0; zones = number of results with zone1 or zone2;
\* zone_attempts = sum over those of attempts_zone2 when zone2 is set and of
\* attempts_zone1 otherwise, each replaced by the flat attempts field where
\* it reads 0; the empty list gives zeros.
C16_IfscAggregate ==
    (Scored /\ fgrading = "ifsc") =>
        IfscAsDescribed(
            [r \in fresults |-> with_fallback(r.attempts_top, r.attempts)],
            [r \in fresults |->
                IF r.zone2 THEN with_fallback(r.attempts_zone2, r.attempts)
                ELSE with_fallback(r.attempts_zone1, r.attempts)])

\* C16 witness: score_ifsc scored two results, one of them a top whose
\* attempts_top reads 0 while its flat attempts field reads 2.
C16_Witness ==
    /\ Scored
    /\ fgrading = "ifsc"
    /\ Cardinality(fresults) = 2
    /\ \E r \in fresults :
        /\ r.top /\ r.zone2 /\ r.zone1
        /\ r.attempts_top = 0 /\ r.attempts = 2
        /\ r.attempts_zone2 = 1 /\ r.attempts_zone1 = 2
    /\ fout[1].tops = 2
    /\ fout[1].top_attempts = 4
    /\ fout[1].zone_attempts = 2

\* C17: when every result of the participant is a flash (a top with
\* attempts_top = 1), each of the three point-based scoring functions gives
\* flash_points per result, whatever the other settings and the top
\* percentage.
C17_FlashScoresFlashPoints ==
    (/\ Scored
     /\ fgrading \in POINT_BASED_SYSTEMS
     /\ \A r \in fresults : r.top /\ r.attempts_top = 1) =>
        fout[1].points = Cardinality(fresults) * fsettings.flash_points

\* the value of tier i of the settings, tier 1 the "100%" tier and tier 10
\* the "10%" tier
tier_value(settings, i) ==
    <<settings.top_points_100, settings.top_points_90, settings.top_points_80,
      settings.top_points_70, settings.top_points_60, settings.top_points_50,
      settings.top_points_40, settings.top_points_30, settings.top_points_20,
      settings.top_points_10>>[i]

\* pct lies above 100 - 10 i and not above 110 - 10 i; tier 1 has no upper
\* and tier 10 no lower limit
InTier(i, pct) ==
    /\ i = 1 \/ pct.num <= (110 - 10 * i) * pct.den
    /\ i = 10 \/ pct.num > (100 - 10 * i) * pct.den

\* the share of the cohort that topped the boulder of r
share_of_tops(r) ==
    IF fcount > 0
    THEN [num |-> 100 * Cardinality({x \in fall : x.top /\ x.boulder = r.boulder}),
          den |-> fcount]
    ELSE [num |-> 0, den |-> 1]

top_base(r) ==
    IF fgrading = "point_based" THEN fsettings.top_points
    ELSE tier_value(fsettings, CHOOSE i \in 1 .. 10 : InTier(i, share_of_tops(r)))

NonFlashTop(r) == r.top /\ with_fallback(r.attempts_top, r.attempts) >= 2

\* C18: when every result of the participant is a top with n >= 2 attempts,
\* score_point_based and score_point_based_dynamic_attempts give the sum
\* over the results of max(base - attempt_penalty * (n - 1), min_top_points),
\* base being top_points under point_based and the tier value of the
\* boulder's top percentage under point_based_dynamic_attempts.
C18_NonFlashTopPenalized ==
    (/\ Scored
     /\ fgrading \in {"point_based", "point_based_dynamic_attempts"}
     /\ \A r \in fresults : NonFlashTop(r)) =>
        fout[1].points =
            SumFn([r \in fresults |->
                LET n == with_fallback(r.attempts_top, r.attempts)
                    reduced == top_base(r) - fsettings.attempt_penalty * (n - 1)
                IN  IF reduced > fsettings.min_top_points THEN reduced
                    ELSE fsettings.min_top_points])

\* C18 witness: score_point_based_dynamic_attempts scored two tops of two
\* attempts each, one on a boulder all three of the cohort topped, and the
\* minimum was not reached.
C18_Witness ==
    /\ Scored
    /\ fgrading = "point_based_dynamic_attempts"
    /\ fsettings = DefaultSettings
    /\ Cardinality(fresults) = 2
    /\ \A r \in fresults : r.top /\ r.attempts_top = 2
    /\ fcount = 3
    /\ Cardinality({x \in fall : x.top /\ x.boulder = 1}) = 3
    /\ fout[1].points = (fsettings.top_points_100 - fsettings.attempt_penalty)
                        + (fsettings.top_points_40 - fsettings.attempt_penalty)

zone_attempts_recorded(r) ==
    IF r.zone2 THEN r.attempts_zone2 ELSE r.attempts_zone1

ZoneWithoutTop(r) ==
    /\ ~r.top
    /\ r.zone1 \/ r.zone2
    /\ zone_attempts_recorded(r) >= 1

\* the results with the zone flags of the tops cleared
tops_alone(results) ==
    {IF r.top THEN [r EXCEPT !.zone1 = FALSE, !.zone2 = FALSE] ELSE r :
        r \in results}

\* C19: when every result of the participant is a zone without a top, with
\* at least one attempt recorded for it, score_point_based and
\* score_point_based_dynamic_attempts give the sum over the results of
\* max(base - attempt_penalty * (attempts - 1), floor), (base, floor) being
\* (zone2_points, min_zone2_points) if zone2 is set, else (zone1_points,
\* min_zone1_points) on a boulder with two zones, else (zone_points,
\* min_zone_points); and the zone flags of a top add nothing to the points.
C19_ZonePenalized ==
    (Scored /\ fgrading \in {"point_based", "point_based_dynamic_attempts"}) =>
        /\ (\A r \in fresults : ZoneWithoutTop(r)) =>
            fout[1].points =
                SumFn([r \in fresults |->
                    LET pair == IF r.zone2
                                THEN <<fsettings.zone2_points,
                                       fsettings.min_zone2_points>>
                                ELSE IF r.zone_count = 2
                                THEN <<fsettings.zone1_points,
                                       fsettings.min_zone1_points>>
                                ELSE <<fsettings.zone_points,
                                       fsettings.min_zone_points>>
                        reduced == pair[1] - fsettings.attempt_penalty
                                             * (zone_attempts_recorded(r) - 1)
                    IN  IF reduced > pair[2] THEN reduced ELSE pair[2]])
        /\ fout[1].points =
               score_by(fgrading, tops_alone(fresults), fsettings,
                        tops_alone(fall), fcount).points

\* C19 witness: score_point_based scored a zone2 reached in two attempts,
\* held at its minimum, and a first zone of a two-zone boulder reached in one.
C19_Witness ==
    /\ Scored
    /\ fgrading = "point_based"
    /\ fsettings = TieredSettings
    /\ Cardinality(fresults) = 2
    /\ \E r \in fresults : ~r.top /\ r.zone2 /\ r.attempts_zone2 = 2
    /\ \E r \in fresults :
           ~r.top /\ ~r.zone2 /\ r.zone1 /\ r.zone_count = 2 /\ r.attempts_zone1 = 1
    /\ fout[1].points = fsettings.min_zone2_points + fsettings.zone1_points

\* C20: get_dynamic_top_points returns the 100% tier value for a percentage
\* above 90, the 90% tier value for one above 80 and up to 90, and so on down
\* to the 10% tier value for one up to 10; where the ten tier values differ
\* it returns a tier's value for no other percentage; exactly 90 gives the
\* 90% tier and the next percentage above 90 the 100% tier.
C20_StrictTierThresholds ==
    fpc = "tier" =>
        /\ \A i \in 1 .. 10 :
            /\ InTier(i, fpct) => fout[1] = tier_value(fsettings, i)
            /\ (fsettings = TieredSettings /\ fout[1] = tier_value(fsettings, i))
                   => InTier(i, fpct)
        /\ fpct.num = 90 * fpct.den => fout[1] = fsettings.top_points_90
        /\ fpct.num = 90 * fpct.den + 1 => fout[1] = fsettings.top_points_100

\* C20 witness: the lookup was made for exactly 90 percent and gave the 90%
\* tier value, which is not the 100% tier value.
C20_Witness ==
    /\ fpc = "tier"
    /\ fsettings = TieredSettings
    /\ fpct.num = 90 * fpct.den
    /\ fout[1] = fsettings.top_points_90
    /\ fout[1] /= fsettings.top_points_100

\* the attempt fields a Result can hold, as <<attempts_zone1, attempts_zone2,
\* attempts_top, attempts>>
AttemptCounts ==
    (0 .. MaxStoredAttempt) \X (0 .. MaxStoredAttempt)
    \X (0 .. MaxStoredAttempt) \X (0 .. MaxStoredAttempt)

\* the results with the attempt fields of the rows of boulder b replaced
with_attempts(results, b, a) ==
    {IF r.boulder = b
     THEN [r EXCEPT !.attempts_zone1 = a[1], !.attempts_zone2 = a[2],
                    !.attempts_top = a[3], !.attempts = a[4]]
     ELSE r : r \in results}

\* the points of the participant had the rows of boulder 1 carried the
\* attempt fields a, everything else as it is
points_with_attempts(a) ==
    score_by(fgrading, with_attempts(fresults, 1, a), fsettings,
             with_attempts(fall, 1, a), fcount).points

\* the tops of the list that count as a flash
flashes(results) ==
    {r.boulder : r \in {x \in results :
                          x.top /\ with_fallback(x.attempts_top, x.attempts) = 1}}

C22_MonotoneInAttempts ==
    (Scored /\ fgrading \in {"point_based", "point_based_dynamic_attempts"}) =>
        \A r \in fresults :
            (r.boulder = 1 /\ r.top /\ r.attempts_top >= 1) =>
                \A more \in r.attempts_top + 1 .. MaxStoredAttempt :
                    points_with_attempts(<<r.attempts_zone1, r.attempts_zone2,
                                           more, r.attempts>>) <= fout[1].points

tops_tallied(b) == Cardinality({x \in fall : x.top /\ x.boulder = b})

\* C23: in score_point_based_dynamic and score_point_based_dynamic_attempts,
\* when the cohort size is 0, or the tally has no top for the boulders of
\* the participant's results, a result is returned in which every non-flash
\* top is scored from top_points_10: as it is under point_based_dynamic,
\* less the penalty and held at min_top_points under
\* point_based_dynamic_attempts.
C23_EmptyCohortLowestTier ==
    (/\ fpc \in {"results", "scored"}
     /\ fgrading \in DYNAMIC_SYSTEMS
     /\ \A r \in fresults : NonFlashTop(r)
     /\ fcount = 0 \/ \A r \in fresults : tops_tallied(r.boulder) = 0) =>
        /\ \A r \in fresults :
               top_percentage(count_tops_per_boulder(fall, r.boulder), fcount).num = 0
        /\ Scored =>
            /\ fout /= None
            /\ fout[1].points =
                SumFn([r \in fresults |->
                    IF fgrading = "point_based_dynamic"
                    THEN fsettings.top_points_10
                    ELSE LET n == with_fallback(r.attempts_top, r.attempts)
                             reduced == fsettings.top_points_10
                                        - fsettings.attempt_penalty * (n - 1)
                         IN  IF reduced > fsettings.min_top_points THEN reduced
                             ELSE fsettings.min_top_points])

\* C23 witness: score_point_based_dynamic scored a top in two attempts for a
\* cohort of size 0 although the tally has a top for its boulder.
C23_Witness ==
    /\ Scored
    /\ fgrading = "point_based_dynamic"
    /\ fsettings = TieredSettings
    /\ fcount = 0
    /\ Cardinality(fresults) = 1
    /\ \E r \in fresults : r.top /\ r.attempts_top = 2 /\ tops_tallied(r.boulder) = 1
    /\ fout[1].points = fsettings.top_points_10

\* the result with the flat attempts field written into the split field it
\* is scored by, where that split field reads 0: attempts_top for a top, and
\* attempts_zone2 for a second zone or else attempts_zone1 for a first zone
with_flat_attempts(r) ==
    LET t == IF r.top /\ r.attempts_top = 0
             THEN [r EXCEPT !.attempts_top = r.attempts] ELSE r
    IN  IF t.zone2 /\ t.attempts_zone2 = 0
        THEN [t EXCEPT !.attempts_zone2 = t.attempts]
        ELSE IF ~t.zone2 /\ t.zone1 /\ t.attempts_zone1 = 0
        THEN [t EXCEPT !.attempts_zone1 = t.attempts]
        ELSE t

\* C24: each of the four scoring functions returns for a list of results
\* what it returns for the list in which every split attempt field that is
\* used and reads 0 holds the value of the flat attempts field: the same
\* attempt totals and the same points.
C24_LegacyFallback ==
    Scored =>
        fout[1] = score_by(fgrading, {with_flat_attempts(r) : r \in fresults},
                           fsettings, {with_flat_attempts(r) : r \in fall}, fcount)

(***************************************************************************)
(* The cache backend is down: a cache call raises, and no caller catches.  *)
(***************************************************************************)
\* get_active_settings line 23: cache.get raises and the exception leaves
\* the function
GetCachedRaises ==
    /\ gpc = "idle"
    /\ gpc' = "raised"
    /\ UNCHANGED <<db_settings, scache, gcached, gret, spc, sraced>>
    /\ UNCHANGED <<fixed_vars, write_vars, cache, read_vars, norm_vars, score_vars, rank_vars>>

\* get_active_settings line 27: cache.set raises after the row was queried
GetSetRaises ==
    /\ gpc = "set"
    /\ gpc' = "raised"
    /\ UNCHANGED <<db_settings, scache, gcached, gret, spc, sraced>>
    /\ UNCHANGED <<fixed_vars, write_vars, cache, read_vars, norm_vars, score_vars, rank_vars>>

\* get_cached_scoreboard line 414: cache.get raises in the view
CacheGetRaises ==
    /\ rpc = "get"
    /\ rpc' = "raised"
    /\ UNCHANGED <<rkey, rdata, rresp>>
    /\ UNCHANGED <<fixed_vars, write_vars, cache, norm_vars, aux_vars>>

\* cache_scoreboard line 420: cache.set raises after the payload was
\* computed, before the response
CacheStoreRaises ==
    /\ rpc = "store"
    /\ rpc' = "raised"
    /\ UNCHANGED <<rkey, rdata, rresp>>
    /\ UNCHANGED <<fixed_vars, write_vars, cache, norm_vars, aux_vars>>

\* handle_submission line 270: cache.delete raises after the transaction
\* committed, before the payload is returned
InvalidateRaises(w) ==
    /\ wpc[w] = "invalidate"
    /\ invalidated_keys(wpart[w]) /= {}
    /\ wpc' = [wpc EXCEPT ![w] = "raised"]
    /\ UNCHANGED <<rows, next_id, wpart, wb, wsub, wcur, wtx, wlocks, payload, wlog>>
    /\ UNCHANGED <<fixed_vars, cache, read_vars, norm_vars, aux_vars>>

\* one age group, boulders with one zone, IFSC grading
InitOutage ==
    /\ InitTable
    /\ zone_count = [b \in Boulders |-> 1]
    /\ age_group_id = [p \in Participants |-> 1]
    /\ grading_system = "ifsc"
    /\ InitRequests
    /\ InitNorm
    /\ InitSettings
    /\ InitScore
    /\ InitRank

\* a result submission, scoreboard requests and get_active_settings calls,
\* each cache call of which succeeds or raises
NextOutage ==
    \/ WriteAlone(1)
    \/ InvalidateRaises(1)
    \/ ScoreboardRequest
    \/ CacheHit
    \/ CacheMiss
    \/ CacheStore
    \/ CacheGetRaises
    \/ CacheStoreRaises
    \/ GetCached
    \/ GetQuery
    \/ GetSet
    \/ GetReturn
    \/ GetCachedRaises
    \/ GetSetRaises

SpecOutage == InitOutage /\ [][NextOutage]_vars

\* C25: whether or not the cache backend answers, no get_active_settings
\* call, scoreboard request or result submission ends in an exception raised
\* by a cache call.
C25_CacheOutageTolerated ==
    /\ gpc /= "raised"
    /\ rpc /= "raised"
    /\ \A w \in Writers : wpc[w] /= "raised"

\* C26: in a normalized result a lower achievement submitted without
\* attempts has the count of the higher achievement that implies it: on a
\* two-zone boulder a top with n >= 1 attempts and no zone attempts gives
\* zone1 = zone2 = true and attempts_zone1 = attempts_zone2 = attempts_top =
\* n, a second zone with n attempts and no first-zone attempts gives
\* attempts_zone1 = n; on a single-zone boulder a top with n attempts and no
\* zone attempts gives attempts_zone1 = n.
C26_AttemptsPropagateDown ==
    Normalized =>
        /\ (/\ nz = 2 /\ nsub.top /\ nsub.attempts_top >= 1
            /\ nsub.attempts_zone2 = 0 /\ nsub.attempts_zone1 = 0) =>
               /\ nout.zone1 /\ nout.zone2 /\ nout.top
               /\ nout.attempts_top = nsub.attempts_top
               /\ nout.attempts_zone2 = nsub.attempts_top
               /\ nout.attempts_zone1 = nsub.attempts_top
        /\ (/\ nz = 2 /\ ~nsub.top /\ nsub.zone2 /\ nsub.attempts_zone2 >= 1
            /\ nsub.attempts_zone1 = 0) =>
               nout.attempts_zone1 = nsub.attempts_zone2
        /\ (/\ nz = 1 /\ nsub.top /\ nsub.attempts_top >= 1
            /\ nsub.attempts_zone1 = 0) =>
               nout.attempts_zone1 = nsub.attempts_top

\* C27: on a boulder with zone_count 0 or 1 the normalized result has 0
\* attempts for every flag it does not carry: attempts_top = 0 without top
\* and, with one zone, attempts_zone1 = 0 without zone1.
C27_UnachievedAttemptsZero ==
    (Normalized /\ nz \in {0, 1}) =>
        /\ ~nout.top => nout.attempts_top = 0
        /\ (nz = 1 /\ ~nout.zone1) => nout.attempts_zone1 = 0

\* C28: whenever no settings update and no get_active_settings call is
\* under way, the settings cache is empty or holds the stored settings, so a
\* call that starts after an update has completed returns the updated
\* settings: no call that was in flight during the update has left the
\* settings of before the update in the cache.
C28_NoStaleSettingsCache ==
    (spc = "idle" /\ gpc = "idle" /\ scache /= None) => scache = db_settings

\* the score fields the grading system ranks by
score_fields(e, grading) ==
    IF grading \in POINT_BASED_SYSTEMS
    THEN <<e.points, e.tops, e.zones, e.attempts>>
    ELSE <<e.tops, e.zones, e.top_attempts, e.zone_attempts>>

\* an entry as a scoring function returns it: no attempts are counted for
\* tops or zones it does not have
AsScored(e) ==
    /\ e.tops = 0 => e.top_attempts = 0
    /\ e.zones = 0 => e.zone_attempts = 0

\* C29: in the list rank_entries returns for entries as the scoring
\* functions return them, two entries whose score fields are
\* all equal have the same rank, and an entry behind them has a rank that
\* counts every entry ahead of it (1, 1, 3).
C29_TiesShareRank ==
    (/\ Ranked
     /\ \A i \in 1 .. Len(kout[1]) : AsScored(kout[1][i])) =>
        LET out == kout[1]
        IN  \A i \in 1 .. Len(out), j \in 1 .. Len(out) :
                /\ score_fields(out[i], kgrading) = score_fields(out[j], kgrading)
                       => out[i].rank = out[j].rank
                /\ score_fields(out[i], kgrading) /= score_fields(out[j], kgrading)
                   /\ i < j
                       => out[j].rank = 1 + Cardinality(
                              {k \in 1 .. Len(out) :
                                  score_fields(out[k], kgrading)
                                      /= score_fields(out[j], kgrading) /\ k < j})

(***************************************************************************)
(* One handle_submission call over several boulders.                       *)
(***************************************************************************)
\* number of boulders of the age group in the call
NumSubmittedBoulders == 2
SubmittedBoulders == 1 .. NumSubmittedBoulders

\* the Boulder and Result tables before the call, the participant has an
\* age group
InitSeveral ==
    /\ zone_count \in [SubmittedBoulders -> ZoneCounts]
    /\ age_group_id = [p \in Participants |-> 1]
    /\ grading_system = "ifsc"
    /\ \E present \in SUBSET (Participants \X SubmittedBoulders) :
        \E pick \in [present -> SeedSubmissions \X (1 .. MaxVersion)] :
            rows = {result_row((pb[1] - 1) * NumSubmittedBoulders + pb[2], pb[1], pb[2],
                               normalize_submission(zone_count[pb[2]], pick[pb][1]),
                               pick[pb][2]) : pb \in present}
    /\ next_id = NumParticipants * NumSubmittedBoulders + 1
    /\ wpc = [w \in Writers |-> "idle"]
    /\ wpart = [w \in Writers |-> 1]
    /\ wb = [w \in Writers |-> 1]
    /\ wsub = [w \in Writers |-> BlankSubmission]
    /\ wcur = [w \in Writers |-> None]
    /\ wtx = [w \in Writers |-> {}]
    /\ wlocks = [w \in Writers |-> {}]
    /\ payload = [w \in Writers |-> [b \in SubmittedBoulders |-> None]]
    /\ wlog = [w \in Writers |-> [b \in SubmittedBoulders |-> NoLog]]
    /\ cache = [k \in CacheKeys |-> None]
    /\ rpc = "idle"
    /\ rkey = AllGroups
    /\ rdata = None
    /\ rresp = None
    /\ InitNorm
    /\ InitSettings
    /\ InitScore
    /\ InitRank

NextSeveral == WriteAlone(1)

SpecSeveral == InitSeveral /\ [][NextSeveral]_vars

\* the submission for boulder b carried a version other than the stored one
Conflicting(w, b) ==
    /\ wlog[w][b].stored_version /= None
    /\ wlog[w][b].sub_version /= NoVersion
    /\ wlog[w][b].sub_version[1] /= wlog[w][b].stored_version[1]

\* the row stored for boulder b once the call of w is over
stored_for(w, b) == first_row(matching(rows, wpart[w], b))

\* C30: when a handle_submission call over several boulders has returned,
\* its payload has an entry for every boulder; a boulder whose submitted
\* version differed from the stored one was rejected, its row is the one
\* that was stored and the entry is that stored state; every other boulder
\* was written whatever happened to the rest, its committed row has the
\* first or the next version and the entry is that written state.
C30_ConflictRejectsOnlyItsBoulder ==
    (wpc[1] = "done") =>
        \A b \in SubmittedBoulders :
            /\ payload[1][b] /= None
            /\ stored_for(1, b) /= None
            /\ payload[1][b][1] = result_to_payload(stored_for(1, b)[1])
            /\ IF Conflicting(1, b)
               THEN /\ wlog[1][b].outcome = "rejected"
                    /\ payload[1][b][1].version = wlog[1][b].stored_version[1]
               ELSE /\ wlog[1][b].outcome \in {"updated", "created"}
                    /\ payload[1][b][1].version =
                           IF wlog[1][b].stored_version = None
                           THEN InitialVersion
                           ELSE next_version(wlog[1][b].stored_version[1])

\* C30 witness: a call has returned after it rejected one boulder for its
\* version and wrote another one, before or after the rejected one.
C30_Witness ==
    /\ wpc[1] = "done"
    /\ \E b \in SubmittedBoulders, c \in SubmittedBoulders :
        /\ b < c
        /\ wlog[1][b].outcome = "rejected"
        /\ wlog[1][c].outcome \in {"updated", "created"}
        /\ payload[1][b] /= None
        /\ payload[1][c] /= None

=============================================================================
